---- MODULE Spec2Model ----
(***************************************************************************)
(* Replay::from_bytes of replay-rs (src/src/lib.rs) as a state machine.    *)
(* One behaviour is one call of from_bytes on one file buffer: the block   *)
(* container loop, the header and roster parser, the slot table, the       *)
(* record loop with its nested per-player block loop and action loop, and  *)
(* the assembly of the Replay.  A panic (an unwrap of a failed read, an    *)
(* index out of range, an arithmetic overflow in a build that checks it,   *)
(* the explicit panic!) ends the behaviour in pc = "panicked".             *)
(*                                                                         *)
(* Cursor positions are 0-based as in std::io::Cursor; sequences are       *)
(* 1-based, so the byte at position p of buf is buf[p + 1].                *)
(***************************************************************************)
EXTENDS Integers, Sequences, FiniteSets, TLC

VARIABLES
    \* the call's argument and the build it runs in
    bytes,              \* from_bytes(bytes)
    logging,            \* log level Info enabled: info! evaluates its arguments
    overflow_checks,    \* build panics on integer overflow (debug) or wraps (release)
    eof_seeks_end,      \* a failed Cursor::read_exact leaves the position at the end
                        \* (std >= 1.80) or where it was (older std)
    \* control
    pc, panic,
    \* block container loop
    reader, version, i, k, num_data_blocks, data,
    \* header and roster
    cursor, player_is_host, player_id, player_name, game_name, game_settings,
    map_name, game_creator_name, player_list, next_record_id,
    \* slot table
    count_slotrecords, slot_i, slots,
    \* record loop
    chat, current_timestamp, records, action_records, actions, last_leaver_index,
    \* time slice and per-player block
    len_following, total_len_following, cursor_position_before_data_read,
    cur_action_player_id, cur_action_blocks_length, position_before_read,
    cur_read_bytes,
    \* the value returned
    replay,
    \* history (not program state): what the last step did, and what was decoded
    overrun, last, decoded

envVars    == <<bytes, logging, overflow_checks, eof_seeks_end>>
fileVars   == <<reader, version, i, k, num_data_blocks, data>>
headVars   == <<player_is_host, player_id, player_name, game_name,
                game_settings, map_name, game_creator_name>>
slotVars   == <<count_slotrecords, slot_i, slots>>
logVars    == <<chat, current_timestamp, records, action_records, actions,
                last_leaver_index>>
sliceVars  == <<len_following, total_len_following,
                cursor_position_before_data_read>>
blockVars  == <<cur_action_player_id, cur_action_blocks_length,
                position_before_read, cur_read_bytes>>
vars == <<envVars, pc, panic, fileVars, cursor, headVars, player_list,
          next_record_id, slotVars, logVars, sliceVars, blockVars, replay,
          overrun, last, decoded>>

----------------------------------------------------------------------------
(* Integer widths *)

U8  == 256
U16 == 65536

\* TLC's integers are 32-bit and signed, so a u32 is kept as its two 16-bit
\* halves <<high, low>>, with the arithmetic of the code done half by half
U32Of(n) == <<n \div U16, n % U16>>

\* a + b in u32: the wrapped sum, and whether the addition overflows
Add32(a, b) ==
    LET lo == a[2] + b[2]
        hi == a[1] + b[1] + (lo \div U16)
    IN  [v |-> <<hi % U16, lo % U16>>, overflow |-> hi >= U16]

\* a u32 as a length or count for the cursor (as usize, as i64). From
\* TooLong on it is kept as TooLong: every buffer of the model is shorter,
\* so a read of it fails and a seek by it lands past the end either way
TooLong == 1073741824
Size(d) == IF d[1] >= TooLong \div U16 THEN TooLong ELSE d[1] * U16 + d[2]

Min(S) == CHOOSE x \in S : \A y \in S : x <= y

\* bytes[from .. from+n) of buf, positions 0-based; past the end of buf the
\* read that fills them has failed and what they hold is never used: 0
Slice(buf, from, n) ==
    [j \in 1..n |-> IF from + j \in 1..Len(buf) THEN buf[from + j] ELSE 0]

ByteAt(buf, p) == Slice(buf, p, 1)[1]

Take(s, n) == IF Len(s) <= n THEN s ELSE SubSeq(s, 1, n)

Reverse(s) == [j \in 1..Len(s) |-> s[Len(s) + 1 - j]]

\* a dword read with the most significant byte first
parse_dword_be(b) == <<b[2] + 256 * b[1], b[4] + 256 * b[3]>>

\* lib.rs parse_dword: little-endian, by byte-weighted summation
parse_dword(b) == <<b[3] + 256 * b[4], b[1] + 256 * b[2]>>

\* lib.rs parse_word
parse_word(b) == b[1] + 256 * b[2]

----------------------------------------------------------------------------
(* std::io::Cursor, threaded through a handler as a record                 *)
(*   pos  : the position                                                   *)
(*   err  : "none", or the panic the handler has run into                  *)
(*   over : a read or a seek of this handler went past the end of buf      *)

Csr(p) == [pos |-> p, err |-> "none", over |-> FALSE]

Fail(c, e) == [c EXCEPT !.err = e]

\* cursor.read_exact(&mut [0; n]).unwrap(): n bytes must remain
ReadExact(buf, c, n) ==
    IF c.err # "none" THEN c
    ELSE IF n = 0 \/ c.pos + n <= Len(buf) THEN [c EXCEPT !.pos = @ + n]
    ELSE [c EXCEPT !.err = "eof", !.over = TRUE]

\* cursor_read_byte / cursor_read_word / cursor_read_dword / _float
cursor_read_byte(buf, c)  == ReadExact(buf, c, 1)
cursor_read_word(buf, c)  == ReadExact(buf, c, 2)
cursor_read_dword(buf, c) == ReadExact(buf, c, 4)

\* cursor_skip_bytes: seek(SeekFrom::Current(n)).unwrap(). A seek past the end
\* succeeds; only a seek before position 0 is an error.
cursor_skip_bytes(buf, c, n) ==
    IF c.err # "none" THEN c
    ELSE IF c.pos + n < 0 THEN Fail(c, "seek")
    ELSE [c EXCEPT !.pos = @ + n, !.over = @ \/ (c.pos + n > Len(buf))]

\* BufRead::read_until(0x00): position of the first 0x00 at or after p, or
\* Len(buf) when there is none
NulAt(buf, p) ==
    LET Z == {q \in p..(Len(buf) - 1) : buf[q + 1] = 0}
    IN  IF Z = {} THEN Len(buf) ELSE Min(Z)

\* the bytes read_until appends: up to and including the delimiter
UntilBuf(buf, p) ==
    LET q == NulAt(buf, p)
    IN  IF p >= Len(buf) THEN <<>>
        ELSE IF q < Len(buf) THEN Slice(buf, p, q + 1 - p)
        ELSE Slice(buf, p, Len(buf) - p)

\* String::from_utf8_lossy, exact for the bytes the inputs use in strings:
\* ASCII is kept, a byte that no UTF-8 sequence contains (0xF8..0xFF) becomes
\* U+FFFD
Lossy(s) == [j \in 1..Len(s) |-> IF s[j] < 128 THEN s[j] ELSE 65533]

\* cursor_read_nullterminated_string: read_until(0x00), then drop the last
\* byte read; string_buf.len() - 1 panics on an empty read (at the end of buf)
cursor_read_nullterminated_string(buf, c) ==
    IF c.err # "none" THEN c
    ELSE IF c.pos >= Len(buf) THEN Fail(c, "index")
    ELSE [c EXCEPT !.pos = c.pos + Len(UntilBuf(buf, c.pos))]

NulString(buf, p) ==
    LET sb == UntilBuf(buf, p) IN Lossy(SubSeq(sb, 1, Len(sb) - 1))

\* cursor_read_string(cursor, len)
cursor_read_string(buf, c, len) == ReadExact(buf, c, len)

FixString(buf, p, len) == Lossy(Slice(buf, p, len))

WordAt(buf, p)  == parse_word(Slice(buf, p, 2))
DwordAt(buf, p) == parse_dword(Slice(buf, p, 4))

----------------------------------------------------------------------------
(* Game-settings bit decoder *)

\* lib.rs is_bit_set: byte & (1 << i) != 0
is_bit_set(byte, b) == (byte \div (2 ^ b)) % 2 = 1

\* lib.rs get_bits_value: bit j of the result is bit bits[j] of byte
RECURSIVE bits_from(_, _, _)
bits_from(byte, bits, j) ==
    IF j > Len(bits) THEN 0
    ELSE (IF is_bit_set(byte, bits[j]) THEN 2 ^ (j - 1) ELSE 0)
         + bits_from(byte, bits, j + 1)

\* a composition that puts the first index of the list at the highest bit
get_bits_value_reversed(byte, bits) == bits_from(byte, Reverse(bits), 1)

get_bits_value(byte, bits) == bits_from(byte, bits, 1)

\* lib.rs decode_gamesettings, the loop from index j (0-based) with the
\* current mask: a byte at j % 8 = 0 is the mask and is not emitted, any other
\* byte is emitted unchanged when bit j % 8 of the mask is set, minus 1 if not
RECURSIVE decode_from(_, _, _)
decode_from(enc, j, mask) ==
    IF j >= Len(enc) \/ enc[j + 1] = 0 THEN <<>>
    ELSE IF j % 8 = 0 THEN decode_from(enc, j + 1, enc[j + 1])
    ELSE <<IF is_bit_set(mask, j % 8) THEN enc[j + 1] ELSE enc[j + 1] - 1>>
         \o decode_from(enc, j + 1, mask)

\* a decoder that ignores the mask: every byte that is emitted is the stored
\* byte minus 1
decode_gamesettings_unmasked(enc) ==
    LET L == NulAt(enc, 0)
    IN  [n \in 1..(L - (L + 7) \div 8) |-> enc[n + 1 + (n - 1) \div 7] - 1]

\* a decoder that tests the mask bit one below the one of the position
decode_gamesettings_low_bit(enc) ==
    LET L == NulAt(enc, 0)
    IN  [n \in 1..(L - (L + 7) \div 8) |->
            LET p == n + (n - 1) \div 7
            IN  IF is_bit_set(enc[p - (p % 8) + 1], (p % 8) - 1) THEN enc[p + 1]
                ELSE enc[p + 1] - 1]

decode_gamesettings(enc) == decode_from(enc, 0, 0)

\* while enc[i] != 0 indexes past the end of enc when enc holds no zero byte
decode_panics(enc) == \A j \in 1..Len(enc) : enc[j] # 0

----------------------------------------------------------------------------
(* Tagged enumerations: FromPrimitive::from_u8(x).or(Some(UNKNOWN)).unwrap() *)

ColorNames ==
    <<"RED", "BLUE", "TEAL", "PURPLE", "YELLOW", "ORANGE", "GREEN", "PINK",
      "GRAY", "LIGHTBLUE", "DARKGREEN", "BROWN", "MAROON", "NAVY",
      "TURQUOISE", "VIOLET", "WHEAT", "PEACH", "MINT", "LAVENDER", "COAL",
      "SNOW", "EMERALD", "PEANUT", "OBSERVER">>

SlotColor_from_u8(x) ==
    IF x \in 1..Len(ColorNames) THEN ColorNames[x] ELSE "UNKNOWN"

SlotRace_from_u8(x) ==
    CASE x = 1 -> "HUMAN" [] x = 2 -> "ORC" [] x = 4 -> "NIGHTELF"
      [] x = 8 -> "UNDEAD" [] x = 20 -> "RANDOM" [] x = 40 -> "FIXED"
      [] OTHER -> "UNKNOWN"

ComputerAIStrength_from_u8(x) ==
    CASE x = 0 -> "EASY" [] x = 1 -> "NORMAL" [] x = 2 -> "INSANE"
      [] OTHER -> "UNKNOWN"

SlotStatus_from_u8(x) ==
    CASE x = 0 -> "EMPTY" [] x = 1 -> "CLOSED" [] x = 2 -> "OCCUPIED"
      [] OTHER -> "UNKNOWN"

LeaveReason_from_u32(x) ==
    CASE x = U32Of(1) -> "CONNECTION_CLOSED_BY_REMOTE_GAME"
      [] x = U32Of(12) -> "CONNECTION_CLOSED_BY_LOCAL_GAME"
      [] OTHER -> "UNKNOWN"

\* ActionType::from_u8; UNKNOWN itself has the discriminant 0x69
ActionType_from_u8(x) ==
    CASE x = 1 -> "PAUSE" [] x = 2 -> "RESUME"
      [] x = 6 -> "SAVE_GAME" [] x = 7 -> "SAVE_GAME_DONE"
      [] x = 16 -> "ABILITY_BASIC"
      [] x = 17 -> "ABILITY_WITH_TARGET_LOCATION"
      [] x = 18 -> "ABILITY_WITH_TARGET_LOCATION_AND_OBJECT"
      [] x = 19 -> "ITEM_TRANSFER"
      [] x = 22 -> "CHANGE_SELECTION" [] x = 23 -> "GROUP_ASSIGN"
      [] x = 24 -> "GROUP_SELECT"
      [] x = 104 -> "MINIMAP_SIGNAL"
      [] OTHER -> "UNKNOWN"

\* SelectionMode::from_u8 is stored as the Option it returns
SelectionMode_from_u8(x) ==
    CASE x = 1 -> "ADD" [] x = 2 -> "REMOVE" [] OTHER -> "None"

----------------------------------------------------------------------------
(* The inflate collaborator (flate2 Decompress::decompress_vec), as the     *)
(* stored form of a deflate stream: a payload that starts with StoredMark   *)
(* inflates to the bytes after the mark, any other payload is corrupt.      *)
(* decompress_vec writes no more than the capacity of out, which is the     *)
(* block header's declared inflated length.                                 *)

StoredMark == 1

\* an inflate that takes any payload for a stored stream
inflate_never_fails(payload) == FALSE

inflate_fails(payload) == payload # <<>> /\ payload[1] # StoredMark

decompress_vec(payload, capacity) ==
    IF payload = <<>> THEN <<>> ELSE Take(Tail(payload), capacity)

----------------------------------------------------------------------------
(* Steps that every handler shares *)

NoPanic == [kind |-> "none", tag |-> -1]

\* a handler that, where it cannot go on, returns what it has
Abort_degraded(op, e, over) ==
    /\ pc' = "done"
    /\ panic' = e
    /\ overrun' = (overrun \/ over)
    /\ last' = [op |-> op]
    /\ UNCHANGED <<envVars, fileVars, cursor, headVars, player_list,
                   next_record_id, slotVars, logVars, sliceVars, blockVars,
                   replay, decoded>>

\* the handler `op` panics with error e; over: a read or seek of it went past
\* the end of the buffer
Abort(op, e, over) ==
    /\ pc' = "panicked"
    /\ panic' = e
    /\ overrun' = (overrun \/ over)
    /\ last' = [op |-> op]
    /\ UNCHANGED <<envVars, fileVars, cursor, headVars, player_list,
                   next_record_id, slotVars, logVars, sliceVars, blockVars,
                   replay, decoded>>

Eof(c) == [kind |-> c.err, tag |-> -1]

----------------------------------------------------------------------------
(* 3.0 Block container: lib.rs 335-403 *)

DataPreview  == 128
BlockPreview == 8

\* lines 335-355: the 48-byte header, the version byte at 0x24, the rest of
\* the header, the block count at 44..47
ReadHeader ==
    /\ pc = "file_header"
    /\ LET c1  == ReadExact(bytes, Csr(0), 48)
           ver == ByteAt(bytes, 36)
           total_header_length == IF ver = 0 THEN 64 ELSE 68
           c2  == ReadExact(bytes, c1, total_header_length - 48)
           n   == parse_dword(Slice(bytes, 44, 4))
       IN  IF c2.err # "none" THEN Abort("file_header", Eof(c2), c2.over)
           ELSE /\ reader' = c2.pos
                /\ version' = ver
                /\ i' = U32Of(total_header_length)
                /\ k' = 0
                /\ num_data_blocks' = n
                /\ data' = <<>>
                /\ pc' = IF 0 < Size(n) THEN "blocks" ELSE "data_start"
                /\ last' = [op |-> "file_header"]
                /\ UNCHANGED <<envVars, panic, cursor, headVars, player_list,
                               next_record_id, slotVars, logVars, sliceVars,
                               blockVars, replay, overrun, decoded>>

\* lines 357-395: one iteration of while k < num_data_blocks
ReadBlock ==
    /\ pc = "blocks"
    /\ LET h  == ReadExact(bytes, Csr(reader), 12)
           block_data_length          == DwordAt(bytes, reader)
           block_data_length_inflated == DwordAt(bytes, reader + 4)
           p  == ReadExact(bytes, h, Size(block_data_length))
           block_data == Slice(bytes, h.pos, Size(block_data_length))
           out == decompress_vec(block_data, Size(block_data_length_inflated))
           \* i += block_data_length + 12 in u32
           step == Add32(block_data_length, U32Of(12))
           sum  == Add32(i, step.v)
           overflow == step.overflow \/ sum.overflow
       IN  IF h.err # "none"
           THEN \* Err(_) => break
                /\ pc' = "data_start"
                /\ last' = [op |-> "block", read |-> "no_header"]
                /\ UNCHANGED <<reader, i, k, data, panic>>
           ELSE IF p.err = "none" /\ inflate_fails(block_data)
           THEN \* decompress_vec(..).unwrap()
                /\ pc' = "panicked"
                /\ panic' = [kind |-> "inflate", tag |-> -1]
                /\ last' = [op |-> "block", read |-> "inflate_failed"]
                /\ UNCHANGED <<reader, i, k, data>>
           ELSE IF p.err = "none" /\ logging /\ Len(out) < BlockPreview
           THEN \* info!(.., out.get(0..8).unwrap())
                /\ pc' = "panicked"
                /\ panic' = [kind |-> "none_unwrap", tag |-> -1]
                /\ last' = [op |-> "block", read |-> "inflated"]
                /\ UNCHANGED <<reader, i, k, data>>
           ELSE IF overflow /\ overflow_checks
           THEN /\ pc' = "panicked"
                /\ panic' = [kind |-> "overflow", tag |-> -1]
                /\ last' = [op |-> "block",
                            read |-> IF p.err = "none" THEN "inflated"
                                     ELSE "no_payload"]
                /\ UNCHANGED <<reader, i, k, data>>
           ELSE /\ reader' = IF p.err = "none" THEN p.pos
                             ELSE IF eof_seeks_end THEN Len(bytes)
                             ELSE h.pos
                /\ data' = IF p.err = "none" THEN data \o out ELSE data
                /\ i' = sum.v
                /\ k' = k + 1
                /\ pc' = IF k + 1 < Size(num_data_blocks) THEN "blocks"
                         ELSE "data_start"
                /\ last' = [op |-> "block",
                            read |-> IF p.err = "none" THEN "inflated"
                                     ELSE "no_payload"]
                /\ UNCHANGED panic
    /\ UNCHANGED <<envVars, version, num_data_blocks, cursor, headVars,
                   player_list, next_record_id, slotVars, logVars, sliceVars,
                   blockVars, replay, overrun, decoded>>

\* lines 398-403: the two info! lines and the cursor over the inflated data
StartData ==
    /\ pc = "data_start"
    /\ IF logging /\ Len(data) < DataPreview
       THEN \* info!(.., data.get(0..128).unwrap())
            Abort("data_start", [kind |-> "none_unwrap", tag |-> -1], FALSE)
       ELSE /\ cursor' = 0
            /\ pc' = "player_record"
            /\ last' = [op |-> "data_start"]
            /\ UNCHANGED <<envVars, panic, fileVars, headVars, player_list,
                           next_record_id, slotVars, logVars, sliceVars,
                           blockVars, replay, overrun, decoded>>

----------------------------------------------------------------------------
(* 4.1 - 4.10 Header and roster: lib.rs 406-508 *)

HeadRest == <<envVars, panic, fileVars, slotVars, logVars, sliceVars,
              blockVars, replay, decoded>>

\* an insert that keeps the entry the key already has
Insert_first(map, key, value) ==
    [x \in DOMAIN map \cup {key} |->
        IF x \in DOMAIN map THEN map[x] ELSE value]

\* HashMap::insert
Insert(map, key, value) ==
    [x \in DOMAIN map \cup {key} |-> IF x = key THEN value ELSE map[x]]

NewPlayer(name) ==
    [battle_tag |-> name, leave_reason |-> "UNKNOWN", result_byte |-> 0,
     left_at |-> 0]

\* 4.1 [PlayerRecord], lines 407-417
PlayerRecord ==
    /\ pc = "player_record"
    /\ LET c1 == cursor_read_byte(data, Csr(cursor))
           c2 == cursor_read_byte(data, c1)
           c3 == cursor_skip_bytes(data, c2, 4)
           c4 == cursor_read_nullterminated_string(data, c3)
           c5 == cursor_read_byte(data, c4)
           additional_data_size_byte == data[c4.pos + 1]
           c6 == cursor_skip_bytes(data, c5, additional_data_size_byte)
       IN  IF c6.err # "none" THEN Abort("player_record", Eof(c6), c6.over)
           ELSE /\ player_is_host' = (data[cursor + 1] = 0)
                /\ player_id' = data[c1.pos + 1]
                /\ player_name' = NulString(data, c3.pos)
                /\ cursor' = c6.pos
                /\ overrun' = (overrun \/ c6.over)
                /\ pc' = "game_name"
                /\ last' = [op |-> "player_record"]
                /\ UNCHANGED <<game_name, game_settings, map_name,
                               game_creator_name, player_list, next_record_id,
                               HeadRest>>

\* 4.2 [GameName], lines 421-425
GameName ==
    /\ pc = "game_name"
    /\ LET c1 == cursor_read_nullterminated_string(data, Csr(cursor))
           c2 == cursor_skip_bytes(data, c1, 1)
       IN  IF c2.err # "none" THEN Abort("game_name", Eof(c2), c2.over)
           ELSE /\ game_name' = NulString(data, cursor)
                /\ cursor' = c2.pos
                /\ overrun' = (overrun \/ c2.over)
                /\ pc' = "game_settings"
                /\ last' = [op |-> "game_name"]
                /\ UNCHANGED <<player_is_host, player_id, player_name,
                               game_settings, map_name, game_creator_name,
                               player_list, next_record_id, HeadRest>>

\* 4.4 [GameSettings], lines 435-447, from the decoded settings bytes
GameSettingsOf(buf) ==
    [game_speed          |-> get_bits_value(buf[1], <<0, 1>>),
     vis_hide_terrain    |-> get_bits_value(buf[2], <<0>>) = 1,
     vis_map_explored    |-> get_bits_value(buf[2], <<1>>) = 1,
     vis_always_visible  |-> get_bits_value(buf[2], <<2>>) = 1,
     vis_default         |-> get_bits_value(buf[2], <<3>>) = 1,
     obs_mode            |-> get_bits_value(buf[2], <<4, 5>>),
     teams_together      |-> get_bits_value(buf[2], <<6>>) = 1,
     fixed_teams         |-> get_bits_value(buf[3], <<1, 2>>),
     shared_unit_control |-> get_bits_value(buf[4], <<0>>) = 1,
     random_hero         |-> get_bits_value(buf[4], <<1>>) = 1,
     random_races        |-> get_bits_value(buf[4], <<2>>) = 1,
     obs_referees        |-> get_bits_value(buf[4], <<6>>) = 1]

MapNameOffset == 13

\* 4.3 [Encoded String] - 4.5 [Map&CreatorName], lines 428-452
GameSettings ==
    /\ pc = "game_settings"
    /\ LET encoded_gamesettings_buf == UntilBuf(data, cursor)
           game_settings_buf == decode_gamesettings(encoded_gamesettings_buf)
           sub == IF Len(game_settings_buf) <= MapNameOffset THEN <<>>
                  ELSE SubSeq(game_settings_buf, MapNameOffset + 1,
                              Len(game_settings_buf))
           s1 == cursor_read_nullterminated_string(sub, Csr(0))
           s2 == cursor_read_nullterminated_string(sub, s1)
       IN  IF \/ decode_panics(encoded_gamesettings_buf)
              \/ Len(game_settings_buf) < MapNameOffset
              \/ s2.err # "none"
           THEN Abort("game_settings", [kind |-> "index", tag |-> -1], FALSE)
           ELSE /\ game_settings' = GameSettingsOf(game_settings_buf)
                /\ map_name' = NulString(sub, 0)
                /\ game_creator_name' = NulString(sub, s1.pos)
                /\ cursor' = cursor + Len(encoded_gamesettings_buf)
                /\ pc' = "player_count"
                /\ last' = [op |-> "game_settings"]
                /\ UNCHANGED <<player_is_host, player_id, player_name,
                               game_name, player_list, next_record_id, overrun,
                               HeadRest>>

\* where the loops over roster records, metadata records go after a tag
AfterRosterTag(tag) ==
    IF tag = 0 \/ tag = 22 THEN "player_list"
    ELSE IF tag = 57 THEN "metadata"
    ELSE "game_start"

\* 4.6 [PlayerCount] - 4.9 [PlayerList] up to its first tag, lines 455-475
PlayerCount ==
    /\ pc = "player_count"
    /\ LET c1 == cursor_read_dword(data, Csr(cursor))
           c2 == cursor_read_byte(data, c1)
           c3 == cursor_read_byte(data, c2)
           c4 == cursor_skip_bytes(data, c3, 2)
           c5 == cursor_skip_bytes(data, c4, 4)
           c6 == cursor_read_byte(data, c5)
           tag == data[c5.pos + 1]
       IN  IF c6.err # "none" THEN Abort("player_count", Eof(c6), c6.over)
           ELSE /\ player_list' = (player_id :> NewPlayer(player_name))
                /\ next_record_id' = tag
                /\ cursor' = c6.pos
                /\ overrun' = (overrun \/ c6.over)
                /\ pc' = AfterRosterTag(tag)
                /\ last' = [op |-> "player_count"]
                /\ UNCHANGED <<headVars, HeadRest>>

\* 4.9 [PlayerList], lines 476-489: one roster record (tag 0x00 or 0x16)
PlayerListEntry ==
    /\ pc = "player_list"
    /\ LET c1 == cursor_read_byte(data, Csr(cursor))
           cur_player_id == data[cursor + 1]
           c2 == cursor_read_nullterminated_string(data, c1)
           c3 == cursor_read_byte(data, c2)
           additional_data_size_byte == data[c2.pos + 1]
           c4 == cursor_skip_bytes(data, c3, additional_data_size_byte)
           c5 == cursor_read_byte(data, c4)
           tag == data[c4.pos + 1]
       IN  IF c5.err # "none" THEN Abort("player_list", Eof(c5), c5.over)
           ELSE /\ player_list' = Insert(player_list, cur_player_id,
                                         NewPlayer(NulString(data, c1.pos)))
                /\ next_record_id' = tag
                /\ cursor' = c5.pos
                /\ overrun' = (overrun \/ c5.over)
                /\ pc' = AfterRosterTag(tag)
                /\ last' = [op |-> "player_list"]
                /\ UNCHANGED <<headVars, HeadRest>>

\* Reforged player metadata, lines 493-501: one record of tag 0x39
MetadataEntry ==
    /\ pc = "metadata"
    /\ LET c1 == cursor_read_byte(data, Csr(cursor))
           c2 == cursor_read_dword(data, c1)
           cur_record_data_length == DwordAt(data, c1.pos)
           c3 == cursor_skip_bytes(data, c2, Size(cur_record_data_length))
           c4 == cursor_read_byte(data, c3)
           tag == data[c3.pos + 1]
       IN  IF c4.err # "none" THEN Abort("metadata", Eof(c4), c4.over)
           ELSE /\ next_record_id' = tag
                /\ cursor' = c4.pos
                /\ overrun' = (overrun \/ c4.over)
                /\ pc' = IF tag = 57 THEN "metadata" ELSE "game_start"
                /\ last' = [op |-> "metadata"]
                /\ UNCHANGED <<headVars, player_list, HeadRest>>

----------------------------------------------------------------------------
(* 4.10 [GameStartRecord], the slot table, the start of 5.0 [ReplayData]:   *)
(* lib.rs 503-576                                                          *)

\* a slot loop that runs once more than the count
more_slots_inclusive(read, count) == read <= count

\* line 516: while i < count_slotrecords
more_slots(read, count) == read < count

GameStartTag       == 25
GameStartPreview   == 128

\* lines 504-514: the tag after the roster and metadata loops must be 0x19;
\* the panic! message takes the 128 bytes that follow, read with unwrap
GameStartRecord ==
    /\ pc = "game_start"
    /\ LET dump == ReadExact(data, Csr(cursor), GameStartPreview)
           c1 == cursor_read_word(data, Csr(cursor))
           c2 == cursor_read_byte(data, c1)
           count == data[c1.pos + 1]
       IN  IF next_record_id # GameStartTag
           THEN IF dump.err # "none"
                THEN Abort("game_start", Eof(dump), dump.over)
                ELSE Abort("game_start",
                           [kind |-> "GameStartRecord", tag |-> next_record_id],
                           FALSE)
           ELSE IF c2.err # "none"
           THEN Abort("game_start", Eof(c2), c2.over)
           ELSE /\ count_slotrecords' = count
                /\ slot_i' = 0
                /\ slots' = <<>>
                /\ cursor' = c2.pos
                /\ pc' = IF more_slots(0, count) THEN "slots"
                         ELSE "replay_data"
                /\ last' = [op |-> "game_start"]
                /\ UNCHANGED <<envVars, panic, fileVars, headVars, player_list,
                               next_record_id, logVars, sliceVars, blockVars,
                               replay, overrun, decoded>>

\* lines 516-557: one 9-byte slot record
SlotRecord ==
    /\ pc = "slots"
    /\ LET c1 == cursor_read_byte(data, Csr(cursor))
           c2 == cursor_read_byte(data, c1)
           c3 == cursor_read_byte(data, c2)
           c4 == cursor_read_byte(data, c3)
           c5 == cursor_read_byte(data, c4)
           c6 == cursor_read_byte(data, c5)
           color_byte == data[c5.pos + 1]
           c7 == cursor_read_byte(data, c6)
           c8 == cursor_read_byte(data, c7)
           c9 == cursor_read_byte(data, c8)
           slot == [player_id |-> data[cursor + 1],
                    map_download_percent |-> data[c1.pos + 1],
                    status |-> SlotStatus_from_u8(data[c2.pos + 1]),
                    is_computer |-> (data[c3.pos + 1] = 1),
                    team_index |-> data[c4.pos + 1],
                    color |-> SlotColor_from_u8((color_byte + 1) % U8),
                    race |-> SlotRace_from_u8(data[c6.pos + 1]),
                    ai_strength |-> ComputerAIStrength_from_u8(data[c7.pos + 1]),
                    handicap_percent |-> data[c8.pos + 1]]
       IN  IF c6.err # "none" THEN Abort("slots", Eof(c6), c6.over)
           ELSE IF color_byte + 1 >= U8 /\ overflow_checks
           THEN Abort("slots", [kind |-> "overflow", tag |-> -1], FALSE)
           ELSE IF c9.err # "none" THEN Abort("slots", Eof(c9), c9.over)
           ELSE /\ slots' = Append(slots, slot)
                /\ slot_i' = slot_i + 1
                /\ cursor' = c9.pos
                /\ pc' = IF more_slots(slot_i + 1, count_slotrecords)
                         THEN "slots"
                         ELSE "replay_data"
                /\ last' = [op |-> "slots"]
                /\ UNCHANGED <<envVars, panic, fileVars, headVars, player_list,
                               next_record_id, count_slotrecords, logVars,
                               sliceVars, blockVars, replay, overrun, decoded>>

\* lines 559-576: random seed, selection mode, start spot count, the first
\* record tag, and the empty logs
StartReplayData ==
    /\ pc = "replay_data"
    /\ LET c1 == cursor_read_dword(data, Csr(cursor))
           c2 == cursor_read_byte(data, c1)
           c3 == cursor_read_byte(data, c2)
           c4 == cursor_read_byte(data, c3)
       IN  IF c4.err # "none" THEN Abort("replay_data", Eof(c4), c4.over)
           ELSE /\ next_record_id' = data[c3.pos + 1]
                /\ chat' = <<>>
                /\ current_timestamp' = 0
                /\ records' = <<>>
                /\ action_records' = <<>>
                /\ actions' = <<>>
                /\ last_leaver_index' = 0
                /\ cursor' = c4.pos
                /\ pc' = "record"
                /\ last' = [op |-> "replay_data"]
                /\ UNCHANGED <<envVars, panic, fileVars, headVars, player_list,
                               slotVars, sliceVars, blockVars, replay, overrun,
                               decoded>>

----------------------------------------------------------------------------
(* 5.0 [ReplayData] record loop: lib.rs 578-985, the records without       *)
(* nested loops                                                            *)

\* records / action_records: the occurrence counters, lines 628-633, 978-983
Count(map, key) ==
    IF key \in DOMAIN map THEN [map EXCEPT ![key] = @ + 1]
    ELSE Insert(map, key, 1)

LeaveTag     == 23
ChatTag      == 32
TimeSliceTags == {30, 31}

\* the fixed records: tag -> bytes skipped
RecordSkip(tag) ==
    CASE tag \in {26, 27, 28} -> 4
      [] tag = 34 -> 5
      [] tag = 35 -> 10
      [] tag = 47 -> 8

FixedRecordTags == {26, 27, 28, 34, 35, 47}

RecordTags == {LeaveTag, ChatTag} \cup TimeSliceTags \cup FixedRecordTags

RecordRest == <<envVars, panic, fileVars, headVars, slotVars, replay>>

\* a map update that makes an entry of the fields when the key is absent
AndModify_upsert(map, key, changes) ==
    [x \in DOMAIN map \cup {key} |->
        IF x \notin DOMAIN map THEN changes
        ELSE IF x = key THEN changes @@ map[x] ELSE map[x]]

\* a map update that assigns the fields to every entry
AndModify_every(map, key, changes) ==
    [x \in DOMAIN map |-> changes @@ map[x]]

\* HashMap::entry(key).and_modify(f), f assigning the fields of `changes`:
\* nothing happens for an absent key
AndModify(map, key, changes) ==
    IF key \in DOMAIN map THEN [map EXCEPT ![key] = changes @@ @] ELSE map

\* record 0x17, lines 581-595, and the next tag, lines 978-984
LeaveRecord ==
    /\ pc = "record"
    /\ next_record_id = LeaveTag
    /\ LET c1 == cursor_read_dword(data, Csr(cursor))
           c2 == cursor_read_byte(data, c1)
           c3 == cursor_read_dword(data, c2)
           c4 == cursor_skip_bytes(data, c3, 4)
           c5 == cursor_read_byte(data, c4)
           cur_leave_reason == LeaveReason_from_u32(DwordAt(data, cursor))
           cur_player_id == data[c1.pos + 1]
           cur_result == DwordAt(data, c2.pos)
           Left == [leave_reason |-> cur_leave_reason,
                    result_byte |-> cur_result[2] % U8]
       IN  IF c5.err # "none" THEN Abort("leave", Eof(c5), c5.over)
           ELSE /\ player_list' = AndModify(player_list, cur_player_id, Left)
                /\ last_leaver_index' = cur_player_id
                /\ records' = Count(records, next_record_id)
                /\ next_record_id' = data[c4.pos + 1]
                /\ cursor' = c5.pos
                /\ overrun' = (overrun \/ c5.over)
                /\ pc' = "record"
                /\ last' = [op |-> "leave", at |-> cursor]
                /\ UNCHANGED <<chat, current_timestamp, action_records,
                               actions, sliceVars, blockVars, decoded,
                               RecordRest>>

\* records 0x1A, 0x1B, 0x1C, 0x22, 0x23, 0x2F: a fixed skip, then the next tag
FixedRecord ==
    /\ pc = "record"
    /\ next_record_id \in FixedRecordTags
    /\ LET c1 == cursor_skip_bytes(data, Csr(cursor), RecordSkip(next_record_id))
           c2 == cursor_read_byte(data, c1)
       IN  IF c2.err # "none" THEN Abort("fixed", Eof(c2), c2.over)
           ELSE /\ records' = Count(records, next_record_id)
                /\ next_record_id' = data[c1.pos + 1]
                /\ cursor' = c2.pos
                /\ overrun' = (overrun \/ c2.over)
                /\ pc' = "record"
                /\ last' = [op |-> "fixed", at |-> cursor]
                /\ UNCHANGED <<chat, current_timestamp, action_records,
                               actions, last_leaver_index, player_list,
                               sliceVars, blockVars, decoded, RecordRest>>

\* (code as i32 - 2) as i8: the low byte of code - 2 as a signed byte; the
\* subtraction overflows i32 for the codes 0x80000000 and 0x80000001
AsI8(x)  == IF x % U8 >= 128 THEN (x % U8) - U8 ELSE x % U8
RecipientSlot(code) == AsI8(code[2] - 2)
RecipientOverflows(code) == code[1] = 32768 /\ code[2] < 2

\* record 0x20, lines 946-959, then the next tag
ChatRecord ==
    /\ pc = "record"
    /\ next_record_id = ChatTag
    /\ LET c1 == cursor_read_byte(data, Csr(cursor))
           c2 == cursor_skip_bytes(data, c1, 2)
           c3 == cursor_read_byte(data, c2)
           c4 == cursor_read_dword(data, c3)
           code == DwordAt(data, c3.pos)
           c5 == cursor_read_nullterminated_string(data, c4)
           c6 == cursor_read_byte(data, c5)
           msg == [sender_player_id |-> data[cursor + 1],
                   flag |-> <<data[c2.pos + 1]>>,
                   recipient_slot_number |-> <<RecipientSlot(code)>>,
                   message |-> NulString(data, c4.pos),
                   timestamp |-> current_timestamp]
       IN  IF c4.err # "none" THEN Abort("chat", Eof(c4), c4.over)
           ELSE IF RecipientOverflows(code) /\ overflow_checks
           THEN Abort("chat", [kind |-> "overflow", tag |-> -1], c4.over)
           ELSE IF c6.err # "none" THEN Abort("chat", Eof(c6), c6.over)
           ELSE /\ chat' = Append(chat, msg)
                /\ records' = Count(records, next_record_id)
                /\ next_record_id' = data[c5.pos + 1]
                /\ cursor' = c6.pos
                /\ overrun' = (overrun \/ c6.over)
                /\ pc' = "record"
                /\ last' = [op |-> "chat", at |-> cursor]
                /\ UNCHANGED <<current_timestamp, action_records, actions,
                               last_leaver_index, player_list, sliceVars,
                               blockVars, decoded, RecordRest>>

\* lines 990-993: the roster keys whose leave reason is "closed by the local
\* game"
saving_player_candidate_ids ==
    {key \in DOMAIN player_list :
        player_list[key].leave_reason = "CONNECTION_CLOSED_BY_LOCAL_GAME"}

FLO == <<70, 76, 79>>

\* lines 995-997: the values the local saving_player_id can take, <<>> for
\* None: the only candidate, or else a candidate whose battle tag is not
\* "FLO", the first one in the iteration order of the HashMap, which is any
\* of them.  The local is never read.
saving_player_id ==
    IF Cardinality(saving_player_candidate_ids) = 1
    THEN {<<key>> : key \in saving_player_candidate_ids}
    ELSE LET named == {key \in saving_player_candidate_ids :
                          player_list[key].battle_tag # FLO}
         IN  IF named = {} THEN {<<>>} ELSE {<<key>> : key \in named}

\* an assembly that takes the recording player from the candidate search
ReplayOf_candidate ==
    LET found == CHOOSE o \in saving_player_id : TRUE
    IN  [version |-> version,
         metadata |-> [game_name |-> game_name,
                       is_saving_player_host |-> player_is_host,
                       saving_player_id |->
                           IF found = <<>> THEN 0 ELSE found[1],
                       map_name |-> map_name,
                       game_creator_battle_tag |-> game_creator_name],
         game_settings |-> game_settings,
         slots |-> slots,
         players |-> player_list,
         chat |-> chat,
         actions |-> actions]

\* Result assembly, lines 999-1026
ReplayOf ==
    [version |-> version,
     metadata |-> [game_name |-> game_name,
                   is_saving_player_host |-> player_is_host,
                   saving_player_id |-> last_leaver_index,
                   map_name |-> map_name,
                   game_creator_battle_tag |-> game_creator_name],
     game_settings |-> game_settings,
     slots |-> slots,
     players |-> player_list,
     chat |-> chat,
     actions |-> actions]

\* an assembly that reads the local saving_player_id
Assemble_found(found) ==
    [ReplayOf EXCEPT !.metadata.saving_player_id =
                         IF found = <<>> THEN 0 ELSE found[1]]

\* the Replay literal, lines 999-1026, where the local saving_player_id holds
\* `found`: the literal does not read the local
Assemble(found) == ReplayOf

\* a loop in which only the tag 0x00 ends the stream and any other tag
\* without an arm is an error
EndOfStream_strict ==
    /\ pc = "record"
    /\ next_record_id \notin RecordTags
    /\ IF next_record_id # 0
       THEN Abort("end", [kind |-> "record", tag |-> next_record_id], FALSE)
       ELSE /\ replay' = <<ReplayOf>>
            /\ pc' = "done"
            /\ last' = [op |-> "end", at |-> cursor]
            /\ UNCHANGED <<envVars, panic, fileVars, cursor, headVars,
                           player_list, next_record_id, slotVars, logVars,
                           sliceVars, blockVars, overrun, decoded>>

\* record 0x00 and any tag without an arm, lines 969-977: break; then the
\* assembly of the Replay, lines 986-1027
EndOfStream ==
    /\ pc = "record"
    /\ next_record_id \notin RecordTags
    /\ \E found \in saving_player_id : replay' = <<Assemble(found)>>
    /\ pc' = "done"
    /\ last' = [op |-> "end", at |-> cursor]
    /\ UNCHANGED <<envVars, panic, fileVars, cursor, headVars, player_list,
                   next_record_id, slotVars, logVars, sliceVars, blockVars,
                   overrun, decoded>>

----------------------------------------------------------------------------
(* Action payloads: lib.rs 642-926. Each handler takes the cursor after the *)
(* opcode byte and gives the cursor after the payload (c) and the          *)
(* Option<ActionData> (data: <<>> is None, <<r>> is Some(r), r holding the  *)
(* fields that are Some).                                                  *)

\* cursor_read_dword_float: the 4 bytes reversed, then f32::from_be_bytes; the
\* f32 is kept as its bit pattern
FloatAt(buf, p) ==
    LET b == Reverse(Slice(buf, p, 4))
    IN  <<256 * b[1] + b[2], 256 * b[3] + b[4]>>

ItemIdEnd == 13

\* an item-id reader that peeks: it steps back over the word it read and no
\* further
cursor_read_ability_itemid_peek(buf, c) ==
    LET a1 == cursor_read_word(buf, c)
        item_id_end == WordAt(buf, c.pos)
        a2 == cursor_skip_bytes(buf, a1, -2)
    IN  IF a2.err # "none" THEN a2
        ELSE IF item_id_end = ItemIdEnd
        THEN cursor_skip_bytes(buf, cursor_read_string(buf, a2, 2), 2)
        ELSE cursor_read_string(buf, a2, 4)

\* lib.rs cursor_read_ability_itemid: the cursor after it
cursor_read_ability_itemid(buf, c) ==
    LET a1 == cursor_read_word(buf, c)
        item_id_end == WordAt(buf, c.pos)
        a2 == cursor_skip_bytes(buf, a1, -4)
    IN  IF a2.err # "none" THEN a2
        ELSE IF item_id_end = ItemIdEnd
        THEN cursor_skip_bytes(buf, cursor_read_string(buf, a2, 2), 2)
        ELSE cursor_read_string(buf, a2, 4)

\* an item id taken from the position of the lookahead word
ability_itemid_peek(buf, c) ==
    IF WordAt(buf, c.pos) = ItemIdEnd THEN FixString(buf, c.pos, 2)
    ELSE FixString(buf, c.pos, 4)

\* lib.rs cursor_read_ability_itemid: the string it returns
ability_itemid(buf, c) ==
    LET a1 == cursor_read_word(buf, c)
        a2 == cursor_skip_bytes(buf, a1, -4)
    IN  IF WordAt(buf, c.pos) = ItemIdEnd THEN FixString(buf, a2.pos, 2)
        ELSE FixString(buf, a2.pos, 4)

\* opcodes 0x10 - 0x13, lines 660-763
ability_action(op, c) ==
    LET c1 == cursor_read_word(data, c)
        c2 == cursor_skip_bytes(data, c1, 2)
        c3 == cursor_read_ability_itemid(data, c2)
        c4 == cursor_read_dword(data, c3)
        c5 == cursor_read_dword(data, c4)
        c7 == IF op >= 17
              THEN cursor_read_dword(data, cursor_read_dword(data, c5))
              ELSE c5
        c9 == IF op >= 18
              THEN cursor_read_dword(data, cursor_read_dword(data, c7))
              ELSE c7
        c11 == IF op >= 19
               THEN cursor_read_dword(data, cursor_read_dword(data, c9))
               ELSE c9
        base == [item_id |-> Reverse(ability_itemid(data, c2)),
                 ability_flags |-> WordAt(data, c.pos),
                 unknownA |-> DwordAt(data, c3.pos),
                 unknownB |-> DwordAt(data, c4.pos)]
        loc == [location |-> [x |-> FloatAt(data, c5.pos),
                              y |-> FloatAt(data, c5.pos + 4)]]
        tgt == [target_obj_id_1 |-> DwordAt(data, c7.pos),
                target_obj_id_2 |-> DwordAt(data, c7.pos + 4)]
        itm == [item_obj_id_1 |-> DwordAt(data, c9.pos),
                item_obj_id_2 |-> DwordAt(data, c9.pos + 4)]
    IN  [c |-> c11,
         data |-> <<CASE op = 16 -> base
                      [] op = 17 -> base @@ loc
                      [] op = 18 -> base @@ loc @@ tgt
                      [] op = 19 -> base @@ loc @@ tgt @@ itm>>,
         after_skip |-> c2.pos,
         after_itemid |-> c3.pos]

\* the (id1, id2) pairs of 0x16 and 0x17, read one dword after the other
RECURSIVE read_object_ids(_, _, _)
read_object_ids(buf, c, n) ==
    IF n = 0 \/ c.err # "none" THEN c
    ELSE read_object_ids(buf, cursor_read_dword(buf, cursor_read_dword(buf, c)),
                         n - 1)

ObjectIds(buf, p, n) ==
    [j \in 1..n |-> [id1 |-> DwordAt(buf, p + 8 * (j - 1)),
                     id2 |-> DwordAt(buf, p + 8 * (j - 1) + 4)]]

\* opcodes 0x16 (change selection) and 0x17 (group assign), lines 767-803
selection_action(op, c) ==
    LET c1 == cursor_read_byte(data, c)
        c2 == cursor_read_word(data, c1)
        n  == WordAt(data, c1.pos)
        c3 == read_object_ids(data, c2, n)
        objs == [objects |-> ObjectIds(data, c2.pos, n)]
        mode == SelectionMode_from_u8(ByteAt(data, c.pos))
    IN  [c |-> c3,
         data |-> <<IF op = 23 THEN [group_id |-> ByteAt(data, c.pos)] @@ objs
                    ELSE IF mode = "None" THEN objs
                    ELSE [sel_mode |-> mode] @@ objs>>]

\* opcodes whose arm skips a fixed number of bytes (none for an empty arm)
ActionSkip(op) ==
    CASE op \in {1, 2, 4, 5, 26, 32, 34, 35, 36, 37, 38, 41, 42, 43, 44,
                 47, 48, 49, 50, 97, 102, 103} -> 0
      [] op = 7 -> 4
      [] op = 20 -> 43
      [] op = 24 -> 2
      [] op = 25 -> 12
      [] op \in {27, 28} -> 9
      [] op \in {29, 33} -> 8
      [] op \in {30, 39, 45, 80} -> 5
      [] op = 46 -> 4
      [] op = 81 -> 9
      [] op \in {105, 106, 123} -> 16
      [] op = 117 -> 1
      [] op = 122 -> 20

SkipOps == {1, 2, 4, 5, 7, 20, 24, 25, 26, 27, 28, 29, 30, 32, 33, 34, 35, 36,
            37, 38, 39, 41, 42, 43, 44, 45, 46, 47, 48, 49, 50, 80, 81, 97,
            102, 103, 105, 106, 117, 122, 123}

AbilityOps == {16, 17, 18, 19}

\* every opcode with an arm of its own in the match on cur_action_id
KnownOps == SkipOps \cup AbilityOps \cup {3, 6, 22, 23, 96, 98, 104}

\* an arm that seeks back over the opcode it has read
skip_action_back(op, c) ==
    [c |-> cursor_skip_bytes(data, c, -1), data |-> <<>>]

skip_action(op, c) ==
    [c |-> IF ActionSkip(op) = 0 THEN c
           ELSE cursor_skip_bytes(data, c, ActionSkip(op)),
     data |-> <<>>]

\* opcode 0x03: one byte read and dropped
speed_action(c) == [c |-> cursor_read_byte(data, c), data |-> <<>>]

\* opcode 0x06, lines 650-656
savegame_action(c) ==
    [c |-> cursor_read_nullterminated_string(data, c),
     data |-> <<[savegame_name |-> NulString(data, c.pos)]>>]

\* opcode 0x62, lines 877-884
unknown3_action(c) ==
    [c |-> cursor_read_dword(data,
               cursor_read_dword(data, cursor_read_dword(data, c))),
     data |-> <<[unknownA |-> DwordAt(data, c.pos),
                 unknownB |-> DwordAt(data, c.pos + 4),
                 unknownC |-> DwordAt(data, c.pos + 8)]>>]

\* opcode 0x68, lines 887-897
minimap_action(c) ==
    [c |-> cursor_read_dword(data, cursor_read_dword(data, c)),
     data |-> <<[location |-> [x |-> FloatAt(data, c.pos),
                               y |-> FloatAt(data, c.pos + 4)]]>>]

ChatWindow == 500

AbsDiff(a, b) == IF a < b THEN b - a ELSE a - b

\* a search that finds only the entries of chat commands
chat_seen_commands_only(log, sender, command, now) ==
    \E j \in 1..Len(log) :
        /\ log[j].flag = <<>>
        /\ log[j].sender_player_id = sender
        /\ log[j].message = command
        /\ AbsDiff(log[j].timestamp, now) < ChatWindow

\* a search that does not look at the sender
chat_seen_any_sender(log, sender, command, now) ==
    \E j \in 1..Len(log) :
        /\ log[j].message = command
        /\ AbsDiff(log[j].timestamp, now) < ChatWindow

\* line 866: the rfind over the chat log finds an entry of the same sender and
\* text less than 500 away
chat_seen(log, sender, command, now) ==
    \E j \in 1..Len(log) :
        /\ log[j].sender_player_id = sender
        /\ log[j].message = command
        /\ AbsDiff(log[j].timestamp, now) < ChatWindow

\* opcode 0x60, lines 858-875: the cursor, and the chat log after it
chat_command(c) ==
    LET c1 == ReadExact(data, c, 8)
        c2 == cursor_read_nullterminated_string(data, c1)
        command == NulString(data, c1.pos)
    IN  [c |-> c2,
         data |-> <<>>,
         chat |-> IF chat_seen(chat, cur_action_player_id, command,
                               current_timestamp)
                  THEN chat
                  ELSE Append(chat,
                           [sender_player_id |-> cur_action_player_id,
                            flag |-> <<>>,
                            recipient_slot_number |-> <<>>,
                            message |-> command,
                            timestamp |-> current_timestamp])]

\* a count of the bytes left that forgets the opcode byte
left_bytes_after_opcode(cur_pos) ==
    cur_action_blocks_length + position_before_read - cur_pos + 1

\* the default arm, lines 916-925: the bytes left of the block, from the
\* declared length and the position, read with read_exact; then break
left_bytes(cur_pos) ==
    cur_action_blocks_length + position_before_read - cur_pos

unknown_action(c) ==
    IF left_bytes(c.pos) < 0 THEN Fail(c, "overflow")
    ELSE ReadExact(data, c, left_bytes(c.pos))

----------------------------------------------------------------------------
(* Time slice, per-player block loop and action loop: lib.rs 605-945 *)

Overflow == [kind |-> "overflow", tag |-> -1]

SliceRest == <<envVars, panic, fileVars, headVars, slotVars, replay>>

\* what no step of the block loop and the action loop writes
Fixed == <<envVars, fileVars, headVars, slotVars, replay>>

\* a clock that holds the increment of the last time slice
timestamp_after_last(current, increment) == increment

\* line 609: current_timestamp += increment as u64
timestamp_after(current, increment) == current + increment

\* records 0x1E / 0x1F, lines 605-614; with nothing to loop over also the
\* mismatch warning and the next tag, lines 942-944 and 978-984
TimeSlice ==
    /\ pc = "record"
    /\ next_record_id \in TimeSliceTags
    /\ LET c1 == cursor_read_word(data, Csr(cursor))
           c2 == cursor_read_word(data, c1)
           declared == WordAt(data, cursor)
           increment == WordAt(data, c1.pos)
           following == (declared - 2) % U16
           c3 == cursor_read_byte(data, c2)
       IN  IF c2.err # "none" THEN Abort("slice", Eof(c2), c2.over)
           ELSE IF declared < 2 /\ overflow_checks
           THEN Abort("slice", Overflow, FALSE)
           ELSE IF following > 3
           THEN /\ current_timestamp' =
                       timestamp_after(current_timestamp, increment)
                /\ len_following' = following
                /\ total_len_following' = following
                /\ cursor_position_before_data_read' = c2.pos
                /\ cursor' = c2.pos
                /\ pc' = "block_header"
                /\ last' = [op |-> "slice", at |-> cursor]
                /\ UNCHANGED <<chat, records, action_records, actions,
                               last_leaver_index, player_list, next_record_id,
                               blockVars, overrun, decoded, SliceRest>>
           ELSE IF c3.err # "none" THEN Abort("slice", Eof(c3), c3.over)
           ELSE /\ current_timestamp' =
                       timestamp_after(current_timestamp, increment)
                /\ len_following' = following
                /\ total_len_following' = following
                /\ cursor_position_before_data_read' = c2.pos
                /\ records' = Count(records, next_record_id)
                /\ next_record_id' = data[c2.pos + 1]
                /\ cursor' = c3.pos
                /\ pc' = "record"
                /\ last' = [op |-> "slice", at |-> cursor]
                /\ UNCHANGED <<chat, action_records, actions,
                               last_leaver_index, player_list, blockVars,
                               overrun, decoded, SliceRest>>

\* a loop test that stops one byte early
more_actions_short(read, length) == read + 1 < length

\* line 624: while cur_read_bytes < cur_action_blocks_length
more_actions(read, length) == read < length

\* a block header that does not stamp the entry
last_seen_never(timestamp) == [left_at |-> 0]

\* lines 619-621: the roster entry of the block's player is stamped with the
\* cumulative timestamp
last_seen(timestamp) == [left_at |-> timestamp]

\* lines 616-623: the header of one per-player block, and the test of the
\* action loop for its first action
BlockHeader ==
    /\ pc = "block_header"
    /\ LET c1 == cursor_read_byte(data, Csr(cursor))
           c2 == cursor_read_word(data, c1)
           pid == data[cursor + 1]
           length == WordAt(data, c1.pos)
           Seen == last_seen(current_timestamp)
       IN  IF c2.err # "none" THEN Abort("block_header", Eof(c2), c2.over)
           ELSE IF len_following < 3 /\ overflow_checks
           THEN Abort("block_header", Overflow, FALSE)
           ELSE /\ cur_action_player_id' = pid
                /\ cur_action_blocks_length' = length
                /\ len_following' = (len_following - 3) % U16
                /\ player_list' = AndModify(player_list, pid, Seen)
                /\ position_before_read' = c2.pos
                /\ cur_read_bytes' = 0
                /\ cursor' = c2.pos
                /\ pc' = IF more_actions(0, length) THEN "action"
                         ELSE "block_end"
                /\ last' = [op |-> "block_header", at |-> cursor]
                /\ UNCHANGED <<logVars, next_record_id, total_len_following,
                               cursor_position_before_data_read, overrun,
                               decoded, SliceRest>>

\* the match on cur_action_id, lines 642-926, for a known opcode
Payload(op, c) ==
    CASE op \in SkipOps    -> skip_action(op, c)
      [] op = 3            -> speed_action(c)
      [] op = 6            -> savegame_action(c)
      [] op \in AbilityOps -> ability_action(op, c)
      [] op \in {22, 23}   -> selection_action(op, c)
      [] op = 96           -> chat_command(c)
      [] op = 98           -> unknown3_action(c)
      [] op = 104          -> minimap_action(c)

\* a push of every action
PushAction_all(log, action) == Append(log, action)

\* line 928: only an action whose type is not UNKNOWN is pushed
PushAction(log, action) ==
    IF action.action_type # "UNKNOWN" THEN Append(log, action) ELSE log

\* lines 624-934: one iteration of while cur_read_bytes < cur_action_blocks_length
DecodeAction ==
    /\ pc = "action"
    /\ LET c0 == cursor_read_byte(data, Csr(cursor))
           cur_action_id == data[cursor + 1]
           known == cur_action_id \in KnownOps
           r  == Payload(cur_action_id, c0)
           u  == unknown_action(c0)
           action == [player_id |-> cur_action_player_id,
                      action_type |-> ActionType_from_u8(cur_action_id),
                      timestamp |-> current_timestamp,
                      data |-> r.data]
           cur_bytes == (r.c.pos - cursor) % U16
           total == cur_read_bytes + cur_bytes
       IN  IF c0.err # "none" THEN Abort("action", Eof(c0), c0.over)
           ELSE IF ~known
           THEN IF u.err # "none" THEN Abort("action", Eof(u), u.over)
                ELSE /\ action_records' = Count(action_records, cur_action_id)
                     /\ cursor' = u.pos
                     /\ pc' = "block_end"
                     /\ last' = [op |-> "action", at |-> cursor,
                                 id |-> cur_action_id, unknown |-> TRUE]
                     /\ UNCHANGED <<chat, actions, cur_read_bytes, overrun,
                                    decoded, panic>>
           ELSE IF r.c.err # "none" THEN Abort("action", Eof(r.c), r.c.over)
           ELSE IF total >= U16 /\ overflow_checks
           THEN Abort("action", Overflow, r.c.over)
           ELSE /\ action_records' = Count(action_records, cur_action_id)
                /\ chat' = IF cur_action_id = 96 THEN r.chat ELSE chat
                /\ actions' = PushAction(actions, action)
                /\ cur_read_bytes' = total % U16
                /\ cursor' = r.c.pos
                /\ overrun' = (overrun \/ r.c.over)
                /\ pc' = IF more_actions(total % U16, cur_action_blocks_length)
                         THEN "action" ELSE "block_end"
                /\ decoded' = Append(decoded, action)
                /\ UNCHANGED panic
                /\ last' = IF cur_action_id \in AbilityOps
                           THEN [op |-> "action", at |-> cursor,
                                 id |-> cur_action_id, unknown |-> FALSE,
                                 after_skip |-> r.after_skip,
                                 after_itemid |-> r.after_itemid]
                           ELSE [op |-> "action", at |-> cursor,
                                 id |-> cur_action_id, unknown |-> FALSE]
    /\ UNCHANGED <<current_timestamp, records, last_leaver_index, player_list,
                   next_record_id, sliceVars, cur_action_player_id,
                   cur_action_blocks_length, position_before_read, Fixed>>

\* lines 936-944 and 978-984: the end of one block; the slice ends when no
\* declared byte is left
BlockEnd ==
    /\ pc = "block_end"
    /\ LET consumed == (cursor - position_before_read) % U16
           following == (len_following - consumed) % U16
           c1 == cursor_read_byte(data, Csr(cursor))
       IN  IF len_following < consumed /\ overflow_checks
           THEN Abort("block_end", Overflow, FALSE)
           ELSE IF following >= 1
           THEN /\ len_following' = following
                /\ pc' = "block_header"
                /\ last' = [op |-> "block_end", at |-> cursor]
                /\ UNCHANGED <<cursor, records, next_record_id, overrun,
                               panic>>
           ELSE IF c1.err # "none" THEN Abort("block_end", Eof(c1), c1.over)
           ELSE /\ len_following' = following
                /\ records' = Count(records, next_record_id)
                /\ next_record_id' = data[cursor + 1]
                /\ cursor' = c1.pos
                /\ pc' = "record"
                /\ last' = [op |-> "block_end", at |-> cursor]
                /\ UNCHANGED <<overrun, panic>>
    /\ UNCHANGED <<chat, current_timestamp, action_records, actions,
                   last_leaver_index, player_list, total_len_following,
                   cursor_position_before_data_read, blockVars, decoded,
                   Fixed>>

----------------------------------------------------------------------------
(* The next-state relation *)

Next ==
    \/ ReadHeader \/ ReadBlock \/ StartData
    \/ PlayerRecord \/ GameName \/ GameSettings \/ PlayerCount
    \/ PlayerListEntry \/ MetadataEntry \/ GameStartRecord
    \/ SlotRecord \/ StartReplayData
    \/ LeaveRecord \/ FixedRecord \/ ChatRecord \/ TimeSlice
    \/ BlockHeader \/ DecodeAction \/ BlockEnd
    \/ EndOfStream

\* the state at the entry of from_bytes(file) in the given build; the locals
\* not yet assigned hold the values their declarations give them
Entry(file, log, checks, seeks) ==
    /\ bytes = file
    /\ logging = log
    /\ overflow_checks = checks
    /\ eof_seeks_end = seeks
    /\ pc = "file_header"
    /\ panic = NoPanic
    /\ reader = 0 /\ version = 0 /\ i = U32Of(0) /\ k = 0
    /\ num_data_blocks = U32Of(0) /\ data = <<>>
    /\ cursor = 0
    /\ player_is_host = FALSE /\ player_id = 0 /\ player_name = <<>>
    /\ game_name = <<>> /\ game_settings = <<>> /\ map_name = <<>>
    /\ game_creator_name = <<>>
    /\ player_list = <<>>
    /\ next_record_id = 0
    /\ count_slotrecords = 0 /\ slot_i = 0 /\ slots = <<>>
    /\ chat = <<>> /\ current_timestamp = 0 /\ records = <<>>
    /\ action_records = <<>> /\ actions = <<>> /\ last_leaver_index = 0
    /\ len_following = 0 /\ total_len_following = 0
    /\ cursor_position_before_data_read = 0
    /\ cur_action_player_id = 0 /\ cur_action_blocks_length = 0
    /\ position_before_read = 0 /\ cur_read_bytes = 0
    /\ replay = <<>>
    /\ overrun = FALSE
    /\ last = [op |-> "entry"]
    /\ decoded = <<>>

----------------------------------------------------------------------------
(* Input files. Builders of the wire format, then the families of files    *)
(* the specifications start from.                                          *)

W(n) == <<n % 256, (n \div 256) % 256>>
D(n) == <<n % 256, (n \div 256) % 256, (n \div 65536) % 256,
          (n \div 16777216) % 256>>
Zeros(n) == [j \in 1..n |-> 0]

RECURSIVE Flatten(_)
Flatten(ss) == IF ss = <<>> THEN <<>> ELSE Head(ss) \o Flatten(Tail(ss))

SeqsUpTo(S, n) == UNION {[1..m -> S] : m \in 0..n}

\* the 48-byte header with the version at 0x24 and the block count at 44..47,
\* and the rest of the header
FileHeader(ver, nblocks) ==
    Zeros(36) \o <<ver>> \o Zeros(7) \o D(nblocks)
    \o Zeros(IF ver = 0 THEN 16 ELSE 20)

\* a block: compressed length, inflated length, two checksums, the payload
Block(payload, inflated) == D(Len(payload)) \o D(inflated) \o Zeros(4) \o payload

Stored(d) == <<StoredMark>> \o d

\* a version 0 file of one block that inflates to d
FileOf(d) == FileHeader(0, 1) \o Block(Stored(d), Len(d))

\* the inverse of decode_gamesettings: groups of up to 7 bytes after a mask
\* byte; an odd byte is stored unchanged with its mask bit set, an even byte
\* is stored as byte + 1 with its mask bit clear; bit 0 of the mask is set
RECURSIVE MaskOf(_, _)
MaskOf(g, j) ==
    IF j > Len(g) THEN 1
    ELSE (IF g[j] % 2 = 1 THEN 2 ^ j ELSE 0) + MaskOf(g, j + 1)

RECURSIVE Encode(_)
Encode(d) ==
    IF d = <<>> THEN <<>>
    ELSE LET g == Take(d, 7)
         IN  <<MaskOf(g, 1)>>
             \o [j \in 1..Len(g) |-> IF g[j] % 2 = 1 THEN g[j] ELSE g[j] + 1]
             \o Encode(SubSeq(d, Len(g) + 1, Len(d)))

\* decoded settings: 13 bytes, then the map name "M" and the creator "C"
SettingsPlain == <<2, 72, 6, 64>> \o Zeros(9) \o <<77, 0, 67, 0>>

\* 4.1 - 4.8: host flag, player 1 "A", game name "G", the encoded settings,
\* the player count, game type and language id
Preamble ==
    <<0, 1, 0, 0, 0, 0, 65, 0, 0>> \o <<71, 0, 0>>
    \o Encode(SettingsPlain) \o <<0>>
    \o D(2) \o <<1, 0, 0, 0>> \o Zeros(4)

RosterRec(tag, id, name) == <<tag, id>> \o name \o <<0, 0>>
MetaRec(body) == <<57, 3>> \o D(Len(body)) \o body
SlotRec(pid, color) == <<pid, 100, 2, 0, 0, color, 1, 1, 100>>
StartRec(slotrecs) ==
    <<GameStartTag>> \o W(Len(Flatten(slotrecs)) + 7) \o <<Len(slotrecs)>>
    \o Flatten(slotrecs) \o D(7) \o <<0, 2>>

\* the head of the decompressed stream the record-loop inputs share: players
\* 1 "A" and 2 "B", one metadata record, two slots
Head2 ==
    Preamble \o RosterRec(22, 2, <<66>>) \o MetaRec(<<9, 9>>)
    \o StartRec(<<SlotRec(1, 0), SlotRec(2, 1)>>)

RLeave(reason, pid, result) ==
    <<LeaveTag>> \o D(reason) \o <<pid>> \o D(result) \o Zeros(4)
RChat(pid, flag, code, text) ==
    <<ChatTag, pid, 0, 0, flag>> \o D(code) \o text \o <<0>>
RFixed(tag) == <<tag>> \o Zeros(RecordSkip(tag))
Blk(pid, length, content) == <<pid>> \o W(length) \o content
RSlice(tag, increment, blocks) ==
    <<tag>> \o W(2 + Len(blocks)) \o W(increment) \o blocks

APause == <<1>>
ASpeed == <<3, 2>>
ASave == <<6, 83, 0>>
ASaveDone == <<7, 0, 0, 0, 0>>
\* an ability action: flags, 2 bytes, the 2 bytes of the word, two dwords and
\* what the richer opcodes add
AAbility(op, b1, b2, word) ==
    <<op>> \o W(66) \o <<b1, b2>> \o W(word) \o D(5) \o D(6)
    \o Zeros(8 * (op - 16))
ASelect(op, mode, n) == <<op, mode>> \o W(n) \o Flatten([j \in 1..n |-> D(j) \o D(j + 16)])
AChatCmd(text) == <<96>> \o Zeros(8) \o text \o <<0>>
AUnknown3 == <<98>> \o D(1) \o D(2) \o D(3)
AMinimap == <<104>> \o D(1065353216) \o D(1073741824)
ASkip(op) == <<op>> \o Zeros(ActionSkip(op))


\* an opcode without an arm, alone
UnknownAction == <<119>>

\* one stream that takes every step of the parser: a fixed record, a slice
\* with a block of every kind of action that ends in an unknown opcode, a
\* chat record, a leave record, the terminator
SinkBlock ==
    APause \o ASpeed \o ASave \o ASaveDone \o AAbility(16, 65, 66, 13)
    \o AAbility(19, 65, 66, 17219) \o ASelect(22, 1, 1) \o ASelect(23, 4, 1)
    \o AChatCmd(<<104>>) \o AUnknown3 \o AMinimap \o ASkip(24)
    \o UnknownAction \o <<1>>

KitchenSink ==
    Head2 \o RFixed(26)
    \o RSlice(31, 1000, Blk(1, Len(SinkBlock), SinkBlock))
    \o RChat(2, 0, 2, <<104>>) \o RLeave(1, 2, 9) \o <<0>>

InitSink == Entry(FileOf(KitchenSink), FALSE, TRUE, TRUE)
SpecSink == InitSink /\ [][Next]_vars

----------------------------------------------------------------------------
(* The record-loop inputs: streams that share Head2 and differ in what      *)
(* follows the slot table.                                                  *)

MaxActs == 2
MaxRecs == 2

\* the actions a block of the block family is made of: known opcodes of
\* several sizes, the two shapes of an ability, and two opcodes without an arm
ActionMenu ==
    {APause, ASaveDone, AAbility(16, 65, 66, ItemIdEnd),
     AAbility(17, 65, 66, 17219), AChatCmd(<<104>>), UnknownAction, <<40>>}

\* how far the declared length of a block is from the bytes of its actions
Deltas == {-1, 0, 1}

\* what follows the last record: the 0x00 tag, or a tag the loop does not
\* know with one more byte behind it
Terminators == {<<0>>, <<85, 32>>}

BlockStreams ==
    {RSlice(31, 1000, Blk(1, Len(Flatten(acts)) + d, Flatten(acts))) \o t :
        acts \in SeqsUpTo(ActionMenu, MaxActs), d \in Deltas,
        t \in Terminators} \ {<<>>}

ChatSlice(increment, pid, text) ==
    RSlice(30, increment, Blk(pid, Len(AChatCmd(text)), AChatCmd(text)))

\* the records of the chat family: the same command sooner or later, from
\* another player, with another text; a chat record; a leave record
RecordMenu ==
    {ChatSlice(300, 1, <<104>>), ChatSlice(500, 1, <<104>>),
     ChatSlice(700, 1, <<104>>), ChatSlice(300, 2, <<104>>),
     ChatSlice(300, 1, <<106>>), RChat(1, 0, 2, <<104>>), RLeave(12, 1, 9)}

ChatStreams ==
    {ChatSlice(1000, 1, <<104>>) \o Flatten(recs) \o <<0>> :
        recs \in SeqsUpTo(RecordMenu, MaxRecs)}

Streams == BlockStreams \cup ChatStreams \cup {KitchenSink}

Init ==
    \E s \in Streams, checks \in BOOLEAN :
        Entry(FileOf(IF s = KitchenSink THEN s ELSE Head2 \o s),
              FALSE, checks, TRUE)

Spec == Init /\ [][Next]_vars

----------------------------------------------------------------------------
(* Properties of the action loop and the record loop *)

\* the boundary of the block in hand: the position right after its length
\* field plus its declared length
Boundary == position_before_read + cur_action_blocks_length

\* C1: when the action loop meets an opcode without an arm, it reads exactly
\* the bytes that remain of the declared length of the block and leaves the
\* loop of that block: no action is decoded or stored by the step, and the
\* cursor stands at the boundary of the block, where the block loop goes on.
\* The step can only fail when the declared length runs past the buffer.
C1_UnknownOpcodeSkipsRest ==
    [][(pc = "action" /\ cursor < Len(data)
        /\ data[cursor + 1] \notin KnownOps)
       => IF pc' = "panicked" THEN Boundary > Len(data)
          ELSE /\ pc' = "block_end"
               /\ cursor' = Boundary
               /\ decoded' = decoded /\ actions' = actions /\ chat' = chat
               /\ cur_read_bytes' = cur_read_bytes]_vars

\* C1 witness: an unknown opcode met after a known action, with bytes of the
\* block behind it that were skipped
C1_Witness ==
    /\ pc = "block_end"
    /\ last.op = "action" /\ last.unknown
    /\ cur_read_bytes > 0
    /\ cursor > last.at + 1

\* the action loop of the block in hand ended by its test, every opcode it
\* met having an arm
KnownBlockEnded ==
    /\ pc = "block_end"
    /\ \/ last.op = "block_header"
       \/ last.op = "action" /\ ~last.unknown

\* C2 (as amended): when the action loop of a block of known opcodes ends,
\* the cursor is at or past the boundary of the block and never before it;
\* the last action decoded began before the boundary (blocks of fewer than
\* 65536 bytes), so the cursor is at the boundary exactly when that action
\* ends there
C2_CursorAtOrPastBoundary ==
    KnownBlockEnded =>
        /\ cursor >= Boundary
        /\ last.op = "action" => last.at < Boundary

\* C2 witness: a block of known opcodes ended with the cursor past its boundary
C2_Witness == KnownBlockEnded /\ last.op = "action" /\ cursor > Boundary

\* C2 (as stated): when the action loop of a block of known opcodes ends, the
\* cursor is exactly at the boundary of the block
C2_CursorExactlyAtBoundary == KnownBlockEnded => cursor = Boundary

\* an ability action (0x10 - 0x13) was the last step
AbilityDecoded ==
    /\ pc \in {"action", "block_end"}
    /\ last.op = "action" /\ ~last.unknown /\ last.id \in AbilityOps

TwiceWithin ==
    Head2 \o ChatSlice(1000, 1, <<104>>) \o ChatSlice(300, 1, <<104>>) \o <<0>>
TwiceApart ==
    Head2 \o ChatSlice(1000, 1, <<104>>) \o ChatSlice(700, 1, <<104>>) \o <<0>>

\* C4: a chat command 0x60 of player p with text t decoded at timestamp T is
\* appended to the chat log if and only if the log holds no entry of sender p
\* and message t whose timestamp is less than 500 away from T; the command at
\* 1000 and 1300 gives one entry, at 1000 and 1700 two
C4_ChatCommandDeduplicated ==
    /\ [][(pc = "action" /\ cursor < Len(data) /\ data[cursor + 1] = 96
           /\ pc' # "panicked")
          => LET t == NulString(data, cursor + 9)
                 held == \E j \in 1..Len(chat) :
                            /\ chat[j].sender_player_id = cur_action_player_id
                            /\ chat[j].message = t
                            /\ chat[j].timestamp - current_timestamp < 500
                            /\ current_timestamp - chat[j].timestamp < 500
             IN  chat' = IF held THEN chat
                         ELSE Append(chat,
                                  [sender_player_id |-> cur_action_player_id,
                                   flag |-> <<>>,
                                   recipient_slot_number |-> <<>>,
                                   message |-> t,
                                   timestamp |-> current_timestamp])]_vars
    /\ []((pc = "done" /\ data = TwiceWithin) => Len(chat) = 1)
    /\ []((pc = "done" /\ data = TwiceApart) =>
              /\ Len(chat) = 2
              /\ chat[1].timestamp = 1000 /\ chat[2].timestamp = 1700)

\* C4 witness: the second command, 300 later, was decoded and not appended
C4_Witness ==
    /\ pc = "done" /\ data = TwiceWithin
    /\ current_timestamp = 1300 /\ Len(chat) = 1
    /\ action_records[96] = 2

IsKnownType(a) == a.action_type # "UNKNOWN"

\* C5: every entry of the output action sequence has an action type other
\* than UNKNOWN, and the sequence is, in stream order and once each, the
\* decoded actions whose opcode resolves to a known type; the actions of any
\* other opcode are consumed and not appended
C5_OnlyKnownActionsKept ==
    /\ \A j \in 1..Len(actions) : actions[j].action_type # "UNKNOWN"
    /\ actions = SelectSeq(decoded, IsKnownType)

\* C5 witness: a block whose actions were all consumed, one of them kept and
\* one of them of no known type
C5_Witness ==
    /\ pc = "done"
    /\ Len(actions) > 0 /\ Len(decoded) > Len(actions)

\* C10: in the record loop the tag 0x00 and any tag outside {0x17, 0x1A, 0x1B,
\* 0x1C, 0x1E, 0x1F, 0x20, 0x22, 0x23, 0x2F} end the loop: no byte is read,
\* no error is raised, and the Replay returned is assembled from the chat
\* entries, actions and players accumulated up to that tag
C10_OtherTagEndsLoop ==
    [][(pc = "record"
        /\ next_record_id \notin {23, 26, 27, 28, 30, 31, 32, 34, 35, 47})
       => /\ pc' = "done"
          /\ panic' = NoPanic
          /\ cursor' = cursor
          /\ replay' = <<ReplayOf>>
          /\ replay'[1].chat = chat /\ replay'[1].actions = actions
          /\ replay'[1].players = player_list]_vars

\* C10 witness: the loop ended on a tag it does not know, with a byte of the
\* stream left unread and a chat entry and an action in the Replay
C10_Witness ==
    /\ pc = "done" /\ next_record_id = 85
    /\ cursor < Len(data)
    /\ Len(replay[1].chat) > 0 /\ Len(replay[1].actions) > 0

----------------------------------------------------------------------------
(* Streams that end too soon, and streams whose roster is not followed by   *)
(* the tag 0x19                                                            *)

\* every prefix of the stream that takes every step of the parser
Truncations == {Take(KitchenSink, n) : n \in 0..Len(KitchenSink)}

\* the head up to the tag of the GameStartRecord
Roster2 == Preamble \o RosterRec(22, 2, <<66>>) \o MetaRec(<<9, 9>>)

WrongStartTags == {24, 26, 255}

\* how many bytes follow the wrong tag: none, fewer than the 128 of the
\* preview, exactly as many, more
Remainders == {0, 127, 128, 200}

WrongStarts ==
    {Roster2 \o <<t>> \o Zeros(n) : t \in WrongStartTags, n \in Remainders}

InitTrunc ==
    \E d \in Truncations \cup WrongStarts, checks \in BOOLEAN :
        Entry(FileOf(d), FALSE, checks, TRUE)

SpecTrunc == InitTrunc /\ [][Next]_vars

\* C6: once a read or a skip of the stream parse has gone past the end of
\* the buffer, from_bytes returns no Replay: a read past the end panics at
\* once, a skip past the end leaves the decode running and the decode then
\* can only go on to a panic
C6_OverrunNeverReturns ==
    overrun =>
        /\ pc # "done" /\ replay = <<>>
        /\ pc = "panicked" \/ ENABLED Next

\* C6 witness: a skip has gone past the end of the buffer and the decode has
\* not stopped yet
C6_Witness ==
    /\ overrun /\ pc = "action"
    /\ cursor > Len(data)

\* C9 (as stated): when the tag after the roster and metadata loops is not
\* 0x19, the decode ends with the error that reports the tag, whatever
\* number of bytes follows the tag
C9_WrongStartTagReported ==
    (pc = "panicked" /\ last.op = "game_start" /\ next_record_id # 25)
        => panic = [kind |-> "GameStartRecord", tag |-> next_record_id]

----------------------------------------------------------------------------
(* Files of several blocks: blocks that inflate, a corrupt block, blocks    *)
(* whose payload is not all there                                           *)

MaxBlocks == 2

\* the stream that takes every step, cut in two blocks after 100 bytes
GoodA == Block(Stored(Take(KitchenSink, 100)), 100)
GoodB ==
    Block(Stored(SubSeq(KitchenSink, 101, Len(KitchenSink))),
          Len(KitchenSink) - 100)

\* a payload that is no stored stream
CorruptBlock == Block(<<2, 7, 7>>, 2)

\* a header that declares 50 bytes more than follow it, with GoodB where its
\* payload starts
ShortBlock == D(Len(GoodB) + 50) \o D(0) \o Zeros(4) \o GoodB

\* a header that declares 0xFFFFFFFF bytes, and 3 bytes
HugeBlock == <<255, 255, 255, 255>> \o D(0) \o Zeros(4) \o <<1, 2, 3>>

BlockMenu == {GoodA, GoodB, CorruptBlock, ShortBlock, HugeBlock}

Versions == {0, 1}

\* the declared block count against the blocks in the file
CountOff == {-1, 0, 1}

FilesOf(bs) ==
    {FileHeader(ver, Len(bs) + off) \o Flatten(bs) :
        ver \in Versions, off \in {o \in CountOff : Len(bs) + o >= 0}}

Files == UNION {FilesOf(bs) : bs \in SeqsUpTo(BlockMenu, MaxBlocks)}

InitFile ==
    \E f \in Files, log \in BOOLEAN, checks \in BOOLEAN, seeks \in BOOLEAN :
        Entry(f, log, checks, seeks)

SpecFile == InitFile /\ [][Next]_vars

\* the block loop stands before a block whose header and payload are all in
\* the file and whose payload is no stored stream
CorruptBlockNext ==
    /\ pc = "blocks"
    /\ reader + 12 <= Len(bytes)
    /\ LET n == Size(DwordAt(bytes, reader))
       IN  /\ n > 0 /\ reader + 12 + n <= Len(bytes)
           /\ bytes[reader + 13] # 1

ShortPayloadNext ==
    /\ pc = "blocks"
    /\ reader + 12 <= Len(bytes)
    /\ reader + 12 + Size(DwordAt(bytes, reader)) > Len(bytes)

\* C8 (as stated): when the payload of a block cannot be read in full, the
\* block loop ends as at the end of the stream: the decode does not fail,
\* nothing is added for that block, and no further block is read or added
C8_ShortPayloadEndsBlocks ==
    /\ [][ShortPayloadNext => (pc' # "panicked" /\ data' = data)]_vars
    /\ [][(pc = "blocks" /\ last = [op |-> "block", read |-> "no_payload"])
          => (pc' = "data_start" /\ data' = data
              /\ last'.read = "no_header")]_vars

----------------------------------------------------------------------------
(* Streams that differ in the bytes of a tagged enumeration: one slot, one  *)
(* selection action, one leave record                                       *)

SlotRecOf(pid, status, color, race, ai) ==
    <<pid, 100, status, 0, 0, color, race, ai, 100>>

\* wire bytes of the slot enumerations: recognised values, the first value
\* past the recognised ones, the discriminant of UNKNOWN, the largest bytes
StatusBytes == {0, 2, 3, 127}
ColorBytes  == {0, 12, 24, 25, 126, 254, 255}
RaceBytes   == {1, 3, 40, 127}
AiBytes     == {0, 2, 3}
ModeBytes   == {0, 1, 2, 3}
ReasonCodes == {0, 1, 12, 13}

EnumTail(mode, reason) ==
    RSlice(31, 100, Blk(1, Len(ASelect(22, mode, 1)), ASelect(22, mode, 1)))
    \o RLeave(reason, 1, 9) \o <<0>>

SlotStreams ==
    {Roster2 \o StartRec(<<SlotRecOf(1, s, c, r, a)>>) \o EnumTail(1, 1) :
        s \in StatusBytes, c \in ColorBytes, r \in RaceBytes, a \in AiBytes}

TailStreams ==
    {Roster2 \o StartRec(<<SlotRec(1, 0)>>) \o EnumTail(m, r) :
        m \in ModeBytes, r \in ReasonCodes}

InitEnum ==
    \E d \in SlotStreams \cup TailStreams \cup {KitchenSink},
       checks \in BOOLEAN :
        Entry(FileOf(d), FALSE, checks, TRUE)

SpecEnum == InitEnum /\ [][Next]_vars

\* a whole slot record is ahead of the cursor
SlotNext == pc = "slots" /\ cursor + 9 <= Len(data)

\* the slot the step appends
NewSlot == slots'[Len(slots')]

\* C11 (as stated): a wire value that is none of the recognised values of its
\* enumeration gives the UNKNOWN variant of the enumeration, never a failure
\* and never an absent value: for the status, color, race and AI strength of
\* a slot, and for the selection mode of action 0x16
C11_UnrecognisedIsUnknown ==
    /\ [][SlotNext
          => /\ pc' # "panicked"
             /\ Len(slots') = Len(slots) + 1
             /\ data[cursor + 3] \notin {0, 1, 2} => NewSlot.status = "UNKNOWN"
             /\ data[cursor + 6] > 24 => NewSlot.color = "UNKNOWN"
             /\ data[cursor + 7] \notin {1, 2, 4, 8, 20, 40}
                    => NewSlot.race = "UNKNOWN"
             /\ data[cursor + 8] \notin {0, 1, 2}
                    => NewSlot.ai_strength = "UNKNOWN"]_vars
    /\ [][(pc = "action" /\ cursor + 1 < Len(data) /\ data[cursor + 1] = 22
           /\ data[cursor + 2] \notin {1, 2} /\ pc' # "panicked")
          => LET a == decoded'[Len(decoded')].data[1]
             IN  "sel_mode" \in DOMAIN a /\ a.sel_mode = "UNKNOWN"]_vars

\* C12 (as stated): the color byte c of a slot record gives the color with
\* the number c + 1: RED for 0, OBSERVER for 24, UNKNOWN for every byte from
\* 25 to 255, and the decode does not fail on it
C12_ColorByteMapsToNext ==
    [][SlotNext
       => /\ pc' # "panicked"
          /\ Len(slots') = Len(slots) + 1
          /\ NewSlot.color =
                 IF data[cursor + 6] <= 24
                 THEN ColorNames[data[cursor + 6] + 1] ELSE "UNKNOWN"
          /\ data[cursor + 6] = 0 => NewSlot.color = "RED"
          /\ data[cursor + 6] = 24 => NewSlot.color = "OBSERVER"]_vars

----------------------------------------------------------------------------
(* Streams of leave records: players 1 and 2 are in the roster, 7 is not    *)

\* reason codes: remote, local, one past the low byte of "remote"
LeaveReasons == {1, 12, 65537}
LeavePlayers == {1, 2, 7}

\* a result code that fits a byte, for every reason and player; one that does
\* not, for every player
LeaveMenu ==
    {RLeave(r, p, 9) : r \in LeaveReasons, p \in LeavePlayers}
    \cup {RLeave(12, p, 300) : p \in LeavePlayers}

LeaveStreams ==
    {Head2 \o Flatten(recs) \o <<0>> : recs \in SeqsUpTo(LeaveMenu, MaxRecs)}

InitLeave ==
    \E d \in LeaveStreams \cup {KitchenSink}, checks \in BOOLEAN :
        Entry(FileOf(d), FALSE, checks, TRUE)

SpecLeave == InitLeave /\ [][Next]_vars

\* a leave record is decoded whole by the step
LeaveStep == pc = "record" /\ next_record_id = LeaveTag /\ pc' = "record"

\* C13: the saving_player_id of the returned Replay is the player id of the
\* last leave record (tag 0x17) processed, in the roster or not, and 0 when
\* there was none: last_leaver_index starts at 0, takes the player id byte of
\* every leave record and changes at no other step; the candidate search
\* does not enter the result
C13_SavingPlayerIsLastLeaver ==
    /\ (pc = "file_header" => last_leaver_index = 0)
    /\ [][IF LeaveStep THEN last_leaver_index' = data[cursor + 5]
                       ELSE last_leaver_index' = last_leaver_index]_vars
    /\ [](pc = "done"
          => replay[1].metadata.saving_player_id = last_leaver_index)

\* a Replay returned after a leave record of a player outside the roster,
\* while the candidate search finds a player
C13_Witness ==
    /\ pc = "done"
    /\ LeaveTag \in DOMAIN records
    /\ replay[1].metadata.saving_player_id \notin DOMAIN player_list
    /\ saving_player_id # {<<>>}


\* two leave records after the head, in both builds
OrderMenu == {RLeave(12, p, 9) : p \in LeavePlayers} \cup {RLeave(1, 1, 9)}

OrderStreams == {Head2 \o a \o b \o <<0>> : a, b \in OrderMenu}

InitOrder ==
    \E d \in OrderStreams \cup {KitchenSink}, checks \in BOOLEAN :
        Entry(FileOf(d), FALSE, checks, TRUE)

SpecOrder == InitOrder /\ [][Next]_vars

\* the steps other than the two whose successor is a long computation
ShortSteps ==
    \/ ReadHeader \/ ReadBlock \/ StartData
    \/ PlayerRecord \/ GameName \/ PlayerCount
    \/ PlayerListEntry \/ MetadataEntry \/ GameStartRecord
    \/ SlotRecord \/ StartReplayData
    \/ LeaveRecord \/ FixedRecord \/ ChatRecord \/ TimeSlice
    \/ BlockHeader \/ BlockEnd
    \/ EndOfStream

\* C14: decoding is deterministic: from every state of a run on a given file
\* in a given build, no step leads anywhere but where the step that is taken
\* leads, so two runs on the same bytes abort at the same place or return the
\* same Replay, whatever the order in which the roster is iterated.  The
\* settings step and the action step are the only steps at their positions;
\* each assigns every variable a function of the state.
C14_Deterministic ==
    [][/\ \A t \in {vars'} : ~ENABLED (ShortSteps /\ vars' # t)
       /\ ShortSteps => ~ENABLED (GameSettings \/ DecodeAction)
       /\ GameSettings => pc = "game_settings"
       /\ DecodeAction => pc = "action"]_vars

\* a Replay returned where the candidate search depends on the order in
\* which the roster is iterated: two candidates, neither called "FLO"
C14_Witness ==
    /\ pc = "done"
    /\ replay # <<>>
    /\ Cardinality(saving_player_id) = 2

----------------------------------------------------------------------------
(* The settings decoder on the encodings of byte sequences                  *)

\* which bytes the encoder stores unchanged (mask bit set); the others are
\* stored as byte + 1 (mask bit clear).  0 cannot be kept and 255 cannot be
\* incremented; for every other byte both are allowed.
Modes == {"keep", "bump", "odd"}

Kept(b, mode) ==
    CASE mode = "keep" -> b # 0
      [] mode = "bump" -> b = 255
      [] mode = "odd"  -> b % 2 = 1

\* the mask of a group: bit j for the j-th byte of the group, and bit 0, which
\* the decoder never reads: `low`
RECURSIVE MaskWith(_, _, _, _)
MaskWith(g, j, mode, low) ==
    IF j > Len(g) THEN low
    ELSE (IF Kept(g[j], mode) THEN 2 ^ j ELSE 0)
         + MaskWith(g, j + 1, mode, low)

RECURSIVE EncodeWith(_, _, _)
EncodeWith(d, mode, low) ==
    IF d = <<>> THEN <<>>
    ELSE LET g == Take(d, 7)
         IN  <<MaskWith(g, 1, mode, low)>>
             \o [j \in 1..Len(g) |->
                    IF Kept(g[j], mode) THEN g[j] ELSE g[j] + 1]
             \o EncodeWith(SubSeq(d, Len(g) + 1, Len(d)), mode, low)

MaxPlain == 3

PlainBytes == {0, 2, 255}

\* what follows the first bytes: nothing; 5 bytes, so that the groups of 7
\* end inside the sequence; the rest of 13 settings bytes and two strings
PlainRests ==
    {<<>>, <<9, 8, 7, 6, 5>>, Zeros(10) \o <<77, 0, 67, 0, 68, 0>>}

Plains ==
    {s \o t : s \in SeqsUpTo(PlainBytes, MaxPlain), t \in PlainRests}

\* 4.1 - 4.2: what stands before the encoded settings
PreSettings == <<0, 1, 0, 0, 0, 0, 65, 0, 0>> \o <<71, 0, 0>>

InitSettings ==
    \E d \in Plains, mode \in Modes, low \in {0, 1} :
        Entry(FileOf(PreSettings \o EncodeWith(d, mode, low) \o <<0>>),
              FALSE, TRUE, TRUE)

InitPlain == InitSettings \/ InitSink

SpecSettings == InitPlain /\ [][Next]_vars

\* the length of the encoding of d with its terminator
EncodedLen(d) == Len(d) + (Len(d) + 6) \div 7 + 1

\* the bytes of data from the settings field on are the encoding of d and
\* its terminator
EncodingAhead(d, mode, low) ==
    /\ Len(data) = Len(PreSettings) + EncodedLen(d)
    /\ SubSeq(data, Len(PreSettings) + 1, Len(data))
           = EncodeWith(d, mode, low) \o <<0>>

\* the settings step decodes d, takes its fields from d and ends after the
\* terminator of the encoding
RoundTrip(d) ==
    /\ ~decode_panics(UntilBuf(data, cursor))
    /\ decode_gamesettings(UntilBuf(data, cursor)) = d
    /\ pc' # "panicked"
           => /\ game_settings' = GameSettingsOf(d)
              /\ cursor' = cursor + EncodedLen(d)

\* C15 (amended): settings round trip: for every byte sequence d, whichever
\* of the allowed bytes the encoder keeps, if bit 0 of every mask byte is set
\* (so that no mask byte is zero), decode_gamesettings on the encoding of d
\* followed by a zero byte does not fail and returns d
C15_RoundTripWithMarkedMasks ==
    [][\A d \in Plains, mode \in Modes :
          (pc = "game_settings" /\ EncodingAhead(d, mode, 1))
          => RoundTrip(d)]_vars

\* C15 (as stated): the same for every encoding that follows the rule for
\* the bytes of the groups, whatever bit 0 of the mask bytes is
C15_SettingsRoundTrip ==
    [][\A d \in Plains, mode \in Modes, low \in {0, 1} :
          (pc = "game_settings" /\ EncodingAhead(d, mode, low))
          => RoundTrip(d)]_vars

\* the settings step has decoded a sequence of more than 14 bytes that holds
\* 0 and 255 among its first bytes
C15_Witness ==
    /\ pc = "player_count"
    /\ \E d \in Plains, mode \in Modes :
          /\ Len(d) > 14 /\ d[1] = 0 /\ d[2] = 255
          /\ EncodingAhead(d, mode, 1)
          /\ game_settings = GameSettingsOf(d)

----------------------------------------------------------------------------
(* The bit extraction on every byte                                         *)

MaxBits == 2

\* every list of at most MaxBits indices, and lists of 8 indices: ascending,
\* descending, eight times the same bit
BitLists ==
    SeqsUpTo(0..7, MaxBits)
    \cup {<<0, 1, 2, 3, 4, 5, 6, 7>>, <<7, 6, 5, 4, 3, 2, 1, 0>>,
          <<7, 7, 7, 7, 7, 7, 7, 7>>}

\* settings whose first four bytes are b
InitBits ==
    \E b \in 0..(U8 - 1) :
        Entry(FileOf(PreSettings
                     \o Encode(<<b, b, b, b>> \o Zeros(9) \o <<77, 0, 67, 0>>)
                     \o <<0>>),
              FALSE, TRUE, TRUE)

InitByte == InitBits \/ InitSink

SpecBits == InitByte /\ [][Next]_vars

BitOf(x, j) == (x \div 2 ^ j) % 2

\* C16: for every byte b and every list of at most 8 indices in 0..7,
\* get_bits_value(b, bits) is the integer whose bit i is bit bits[i] of b for
\* every i below the length of the list and whose other bits are 0;
\* get_bits_value(b, [0,1]), which the settings step stores as the game
\* speed, is 3 for 0b11, 2 for 0b10 and 0 for 0
C16_BitsComposeLittleEndian ==
    [][(pc = "game_settings" /\ pc' = "player_count")
       => LET b == decode_gamesettings(UntilBuf(data, cursor))[1]
          IN  /\ \A bits \in BitLists :
                    LET r == get_bits_value(b, bits)
                    IN  /\ r \in 0..(2 ^ Len(bits) - 1)
                        /\ \A j \in 1..Len(bits) :
                              BitOf(r, j - 1) = BitOf(b, bits[j])
              /\ game_settings'.game_speed = BitOf(b, 0) + 2 * BitOf(b, 1)
              /\ game_settings'.obs_mode = BitOf(b, 4) + 2 * BitOf(b, 5)
              /\ b = 3 => game_settings'.game_speed = 3
              /\ b = 2 => game_settings'.game_speed = 2
              /\ b = 0 => game_settings'.game_speed = 0]_vars

\* the settings step has taken the speed 2 from the byte 0b00000010
C16_Witness ==
    /\ pc = "player_count"
    /\ decode_gamesettings(UntilBuf(data, Len(PreSettings)))[1] = 2
    /\ game_settings.game_speed = 2

----------------------------------------------------------------------------
(* Minimal replays: one player, one slot, one time slice with one ability   *)
(* action 0x10, one leave record of that player with reason 0x01            *)

MinimalHead == Preamble \o StartRec(<<SlotRec(1, 0)>>)

\* what follows the leave record: nothing, an end tag, an end tag and
\* padding that makes the stream longer than the 128 bytes of the preview
MinimalTails == {<<>>, <<0>>, Zeros(64)}

MinimalWith(tag, increment, word, result, tail) ==
    MinimalHead
    \o RSlice(tag, increment, Blk(1, 15, AAbility(16, 65, 66, word)))
    \o RLeave(1, 1, result) \o tail

MinimalStreams(tails) ==
    {MinimalWith(tag, increment, word, result, tail) :
        tag \in TimeSliceTags, increment \in {0, 100}, word \in {13, 17219},
        result \in {9, 300}, tail \in tails}

InitMinimal ==
    \E d \in MinimalStreams(MinimalTails), log \in BOOLEAN, checks \in BOOLEAN :
        Entry(FileOf(d), log, checks, TRUE)

InitSmall == InitMinimal \/ InitSink

SpecMinimal == InitSmall /\ [][Next]_vars

\* the Replay of the claim: one slot, one action, of type ABILITY_BASIC, and
\* the roster entry of player 1 left with "closed by remote game"
MinimalReplay ==
    /\ Len(replay[1].slots) = 1
    /\ Len(replay[1].actions) = 1
    /\ replay[1].actions[1].action_type = "ABILITY_BASIC"
    /\ replay[1].players[1].leave_reason = "CONNECTION_CLOSED_BY_REMOTE_GAME"

\* C17 (as stated): on a minimal replay whose stream ends with the leave
\* record, decoded without diagnostic logging, from_bytes does not abort and
\* the Replay it returns has one slot, one action of type ABILITY_BASIC, and
\* the leave reason CONNECTION_CLOSED_BY_REMOTE_GAME for the player
C17_MinimalReplayDecodes ==
    (~logging /\ data \in MinimalStreams({<<>>}))
    => /\ pc # "panicked"
       /\ pc = "done" => MinimalReplay


\* C18 (as stated): diagnostics never gate control flow: a minimal replay
\* with an end tag after the leave record, which is decoded to the Replay of
\* one slot and one action when logging is disabled, is decoded to the same
\* Replay when logging is enabled
C18_LoggingIsTransparent ==
    data \in MinimalStreams({<<0>>, Zeros(64)})
    => /\ pc # "panicked"
       /\ pc = "done" => MinimalReplay


\* the reason a 32-bit code stands for
ReasonOf(code) ==
    IF code = <<0, 1>> THEN "CONNECTION_CLOSED_BY_REMOTE_GAME"
    ELSE IF code = <<0, 12>> THEN "CONNECTION_CLOSED_BY_LOCAL_GAME"
    ELSE "UNKNOWN"

\* the roster entry of player p holds what the leave record r says and what
\* the entry `before` held in its other fields
Left(entry, r, before) ==
    /\ entry.leave_reason = ReasonOf(DwordAt(r, 1))
    /\ entry.result_byte = r[7]
    /\ entry.battle_tag = before.battle_tag
    /\ entry.left_at = before.left_at

\* C19: a leave record (tag 0x17) of a player in the roster sets the leave
\* reason of that entry to the reason of the 32-bit code (UNKNOWN for any code
\* but 0x01 and 0x0C) and its result byte to the low 8 bits of the result
\* code, leaves its battle tag and left_at, and every other entry, as they
\* were, and takes 13 bytes after the tag; of two leave records of one player
\* the later one is the one the roster shows
C19_LeaveRecordEffect ==
    /\ [][LeaveStep
          => LET r == <<LeaveTag>> \o Slice(data, cursor, 13)
                 p == r[6]
             IN  /\ cursor' = cursor + 13 + 1
                 /\ next_record_id' = data[cursor + 13 + 1]
                 /\ DOMAIN player_list' = DOMAIN player_list
                 /\ \A q \in DOMAIN player_list :
                       IF q = p
                       THEN Left(player_list'[q], r, player_list[q])
                       ELSE player_list'[q] = player_list[q]]_vars
    /\ [](pc = "done"
          => \A a, b \in LeaveMenu :
                (data = Head2 \o a \o b \o <<0>> /\ a[6] = b[6]
                 /\ b[6] \in DOMAIN replay[1].players)
                => Left(replay[1].players[b[6]], b, NewPlayer(<<64 + b[6]>>)))

\* the Replay after two leave records of player 1: the first with the reason
\* "remote", the second with the reason "local" and the result code 300
C19_Witness ==
    /\ pc = "done"
    /\ data = Head2 \o RLeave(1, 1, 9) \o RLeave(12, 1, 300) \o <<0>>
    /\ replay[1].players[1].leave_reason = "CONNECTION_CLOSED_BY_LOCAL_GAME"
    /\ replay[1].players[1].result_byte = 44
    /\ replay[1].players[2].leave_reason = "UNKNOWN"

----------------------------------------------------------------------------
(* Timestamps *)

\* a time slice record is taken by the step
SliceStep ==
    pc = "record" /\ next_record_id \in TimeSliceTags /\ pc' # "panicked"

\* the log has grown by one entry, stamped with the running timestamp
Stamped(log, grown) ==
    /\ Len(grown) = Len(log) + 1
    /\ SubSeq(grown, 1, Len(log)) = log
    /\ grown[Len(grown)].timestamp = current_timestamp
    /\ current_timestamp' = current_timestamp

NonDecreasing(log) ==
    \A j \in 1..(Len(log) - 1) : log[j].timestamp <= log[j + 1].timestamp

\* C20: the running timestamp is the sum of the 16-bit increments of the
\* time slice records (0x1E, 0x1F) taken so far: it starts at 0, a time slice
\* adds the word after its length field, no other step changes it; every
\* action and every chat entry is stamped with it when it is appended, so the
\* timestamps of the action log and of the chat log never decrease
C20_TimestampIsSumOfIncrements ==
    /\ (pc = "file_header" => current_timestamp = 0)
    /\ [][IF SliceStep
          THEN current_timestamp' = current_timestamp + WordAt(data, cursor + 2)
          ELSE current_timestamp' = current_timestamp]_vars
    /\ [][actions' # actions => Stamped(actions, actions')]_vars
    /\ [][chat' # chat => Stamped(chat, chat')]_vars
    /\ [](NonDecreasing(actions) /\ NonDecreasing(chat))

\* a Replay whose chat log holds an entry of the first time slice and one of
\* a later time slice
C20_Witness ==
    /\ pc = "done"
    /\ Len(replay[1].chat) = 2
    /\ replay[1].chat[1].timestamp = 1000
    /\ replay[1].chat[2].timestamp = 1700

----------------------------------------------------------------------------
(* The table of fixed-size opcodes: a block of one such action and a pause  *)

\* the opcodes the table of fixed sizes names
FixedTable ==
    {1, 2, 4, 5, 20, 24, 25} \cup (26..46) \cup (47..50)
    \cup {80, 81, 97, 102, 103, 105, 106, 117, 122, 123}

\* the action of opcode op with the payload its arm skips, none when the
\* match has no arm for op
TableAction(op) ==
    IF op \in SkipOps THEN ASkip(op) ELSE <<op>>

TableStream(op) ==
    Head2
    \o RSlice(31, 100,
              Blk(1, Len(TableAction(op)) + 1, TableAction(op) \o APause))
    \o <<0>>

InitTable ==
    \E op \in FixedTable, checks \in BOOLEAN :
        Entry(FileOf(TableStream(op)), FALSE, checks, TRUE)

InitFixed == InitTable \/ InitSink

SpecTable == InitFixed /\ [][Next]_vars

\* C21 (as stated): an action whose opcode is in the table of fixed sizes is
\* taken by skipping the number of bytes of its opcode, and the action loop
\* goes on with the next action of the block; the step never takes the path
\* of an unknown opcode, which ends the block
C21_FixedTableNeverEndsBlock ==
    [][(pc = "action" /\ cursor < Len(data)
        /\ data[cursor + 1] \in FixedTable /\ pc' # "panicked")
       => /\ ~last'.unknown
          /\ data[cursor + 1] \in SkipOps
          /\ cursor' = cursor + 1 + ActionSkip(data[cursor + 1])
          /\ pc' = IF cur_read_bytes' < cur_action_blocks_length
                   THEN "action" ELSE "block_end"]_vars

----------------------------------------------------------------------------
(* The lookahead of the item id *)

\* the item id of the ability action decoded last, in the order of the bytes
ItemIdBytes == Reverse(decoded[Len(decoded)].data[1].item_id)

\* the length of the item id the lookahead word asks for
ItemIdLen == IF WordAt(data, last.after_skip) = ItemIdEnd THEN 2 ELSE 4

----------------------------------------------------------------------------
(* The remaining-length counter of a time slice *)

SliceOps == {"slice", "block_header", "block_end"}

\* C23 (as stated): while a time slice record is processed the 16-bit
\* counter of the bytes that remain never underflows: no subtraction from it
\* fails, and it never grows: it is the declared length minus 2 after the
\* time increment, and every block header and every block brings it down
C23_RemainingNeverUnderflows ==
    /\ []((pc = "panicked" /\ last.op \in SliceOps) => panic.kind # "overflow")
    /\ [][SliceStep => len_following' = WordAt(data, cursor) - 2]_vars
    /\ [][(pc \in {"block_header", "block_end"} /\ pc' # "panicked")
          => len_following' <= len_following]_vars

----------------------------------------------------------------------------
(* Streams of time slices and leave records that name players 1 and 2, who  *)
(* are in the roster, and player 7, who is not                              *)

SeenAbility == AAbility(16, 65, 66, 17219)

\* a record as a triple of tag, timestamp increment and players named: a
\* slice of one block for every player; a slice of two blocks, the second of
\* player 7; a slice without a block; a leave record for every player
SeenMenu ==
    {<<30, 100, <<p>>>> : p \in LeavePlayers}
    \cup {<<31, 50, <<1, 7>>>>, <<31, 20, <<>>>>}
    \cup {<<LeaveTag, 0, <<p>>>> : p \in LeavePlayers}

\* the block of player 7 is an ability action, the others a pause action
SeenBlock(p) ==
    IF p = 7 THEN Blk(p, Len(SeenAbility), SeenAbility)
    ELSE Blk(p, 1, APause)

SeenBytes(r) ==
    IF r[1] = LeaveTag THEN RLeave(12, r[3][1], 9)
    ELSE RSlice(r[1], r[2],
                Flatten([j \in 1..Len(r[3]) |-> SeenBlock(r[3][j])]))

SeenLists == SeqsUpTo(SeenMenu, MaxRecs)

SeenStream(recs) ==
    Head2 \o Flatten([j \in 1..Len(recs) |-> SeenBytes(recs[j])]) \o <<0>>

SeenStreams == {SeenStream(recs) : recs \in SeenLists}

InitSeen ==
    \E d \in SeenStreams \cup {KitchenSink}, checks \in BOOLEAN :
        Entry(FileOf(d), FALSE, checks, TRUE)

SpecSeen == InitSeen /\ [][Next]_vars

\* the positions of the record loop
RecordLoop == {"record", "block_header", "action", "block_end"}

\* C24: the set of roster keys is fixed once the header and the roster are
\* parsed: no step of the record loop adds or removes an entry; a leave
\* record or a block of a player id that is not a key leaves the whole roster
\* as it was, and the actions of such a block are decoded and appended with
\* that player id
C24_RosterKeysFixed ==
    /\ [][(pc \in RecordLoop)
          => (DOMAIN player_list') = (DOMAIN player_list)]_vars
    /\ [][(pc = "record" /\ next_record_id = LeaveTag
           /\ ByteAt(data, cursor + 4) \notin DOMAIN player_list)
          => player_list' = player_list]_vars
    /\ [][(pc = "block_header"
           /\ ByteAt(data, cursor) \notin DOMAIN player_list)
          => player_list' = player_list]_vars
    /\ [][(pc = "action" /\ pc' # "panicked"
           /\ cur_action_player_id \notin DOMAIN player_list
           /\ ByteAt(data, cursor) \in AbilityOps)
          => /\ Len(actions') = Len(actions) + 1
             /\ actions'[Len(actions')].player_id = cur_action_player_id
             /\ actions'[Len(actions')].action_type # "UNKNOWN"]_vars

\* a Replay returned after a block and a leave record of player 7: the
\* roster has the keys 1 and 2, the action log has an action of player 7
C24_Witness ==
    /\ pc = "done"
    /\ DOMAIN replay[1].players = {1, 2}
    /\ replay[1].metadata.saving_player_id = 7
    /\ \E j \in 1..Len(replay[1].actions) : replay[1].actions[j].player_id = 7

----------------------------------------------------------------------------
(* Streams whose roster loop reads up to MaxRecs records, with ids that     *)
(* repeat and an id that is the one of the session player                  *)

\* a roster record as a triple of tag, player id and name; the last one is
\* written with 2 bytes of additional data
RosterMenu ==
    {<<22, 2, <<66>>>>, <<0, 2, <<67>>>>, <<22, 1, <<68>>>>,
     <<22, 3, <<69, 70>>>>, <<0, 4, <<>>>>}

RosterBytes(r) ==
    IF r[2] = 4 THEN <<r[1], r[2]>> \o r[3] \o <<0, 2, 9, 9>>
    ELSE RosterRec(r[1], r[2], r[3])

RosterStream(recs) ==
    Preamble \o Flatten([j \in 1..Len(recs) |-> RosterBytes(recs[j])])
    \o StartRec(<<SlotRec(1, 0)>>) \o RLeave(1, 3, 9) \o <<0>>

RosterLists == SeqsUpTo(RosterMenu, MaxRecs)

InitRoster ==
    \E d \in {RosterStream(recs) : recs \in RosterLists} \cup {KitchenSink},
       checks \in BOOLEAN :
        Entry(FileOf(d), FALSE, checks, TRUE)

SpecRoster == InitRoster /\ [][Next]_vars

\* the positions of the parser after the roster loop
AfterRoster == {"game_start", "slots", "replay_data"} \cup RecordLoop

\* the roster the claim describes for the session player 1 "A" and a list of
\* roster records: a fresh entry for every id, named by its last occurrence
RosterIds(recs) == {1} \cup {recs[j][2] : j \in 1..Len(recs)}
LastOf(recs, id) ==
    LET js == {j \in 1..Len(recs) : recs[j][2] = id}
    IN  IF js = {} THEN <<65>>
        ELSE recs[CHOOSE j \in js : \A j2 \in js : j2 <= j][3]
RosterOf(recs) ==
    [id \in RosterIds(recs) |->
        [battle_tag |-> LastOf(recs, id), leave_reason |-> "UNKNOWN",
         result_byte |-> 0, left_at |-> 0]]

\* C25: when the header parser is through, the roster has exactly one entry
\* for the session player's id and for every id the roster loop read, each
\* with leave reason UNKNOWN, result byte 0 and left_at 0; an id that occurs
\* again has the one entry with the name of its last occurrence
C25_RosterAfterHeader ==
    \A recs \in RosterLists :
        (data = RosterStream(recs) /\ pc \in AfterRoster
         /\ last.op # "leave")
        => player_list = RosterOf(recs)

\* the roster loop has read two records of player 2 ("B", then "C") and the
\* slots are parsed: player 2 is "C"
C25_Witness ==
    /\ pc = "record"
    /\ last.op # "leave"
    /\ data = RosterStream(<<<<22, 2, <<66>>>>, <<0, 2, <<67>>>>>>)
    /\ DOMAIN player_list = {1, 2}
    /\ player_list[2].battle_tag = <<67>>

----------------------------------------------------------------------------
(* The last-seen timestamp of a roster entry                                *)

\* the cumulative timestamp after the first n records of a list
RECURSIVE StampAt(_, _)
StampAt(recs, n) == IF n = 0 THEN 0 ELSE StampAt(recs, n - 1) + recs[n][2]

\* the cumulative timestamp of the last slice of the list with a block of
\* the player, 0 when there is none
LeftAtOf(recs, id) ==
    LET js == {j \in 1..Len(recs) :
                 /\ recs[j][1] \in TimeSliceTags
                 /\ \E b \in 1..Len(recs[j][3]) : recs[j][3][b] = id}
    IN  IF js = {} THEN 0
        ELSE StampAt(recs, CHOOSE j \in js : \A j2 \in js : j2 <= j)

\* C26: left_at of a roster entry is the cumulative timestamp of the most
\* recent time slice in which a block named the player, and 0 if there was
\* none: a block header stamps the entry of its player with the current
\* cumulative timestamp and leaves the others alone, no other step (a leave
\* record included) changes a left_at, left_at never decreases and never
\* exceeds the current cumulative timestamp, and the roster returned for a
\* list of slices and leave records has the left_at computed from the list
C26_LeftAtIsLastSliceOfPlayer ==
    /\ [](\A id \in DOMAIN player_list :
            player_list[id].left_at <= current_timestamp)
    /\ [][(pc = "block_header" /\ pc' # "panicked")
          => \A id \in DOMAIN player_list :
                player_list'[id].left_at =
                    IF id = ByteAt(data, cursor) THEN current_timestamp
                    ELSE player_list[id].left_at]_vars
    /\ [][(pc \in RecordLoop /\ pc # "block_header")
          => \A id \in DOMAIN player_list :
                player_list'[id].left_at = player_list[id].left_at]_vars
    /\ [][(pc \in RecordLoop)
          => \A id \in DOMAIN player_list :
                player_list'[id].left_at >= player_list[id].left_at]_vars
    /\ [](\A recs \in SeenLists :
            (pc = "done" /\ data = SeenStream(recs))
            => \A id \in DOMAIN replay[1].players :
                  replay[1].players[id].left_at = LeftAtOf(recs, id))

\* a Replay returned after a slice that names player 1 at 100 and a slice
\* that names players 1 and 7 at 150: player 1 was last seen at 150, player 2
\* never
C26_Witness ==
    /\ pc = "done"
    /\ data = SeenStream(<<<<30, 100, <<1>>>>, <<31, 50, <<1, 7>>>>>>)
    /\ replay[1].players[1].left_at = 150
    /\ replay[1].players[2].left_at = 0

----------------------------------------------------------------------------
(* Streams of one chat record, over recipient codes at the edges of i32 and *)
(* of the signed byte                                                       *)

\* the 4 bytes of the recipient code as they are stored: 2, 0, 1, 130, 257,
\* 0x80000000, 0x80000001, 0x80000002, 0xFFFFFFFF
CodeBytes ==
    {<<2, 0, 0, 0>>, <<0, 0, 0, 0>>, <<1, 0, 0, 0>>, <<130, 0, 0, 0>>,
     <<1, 1, 0, 0>>, <<0, 0, 0, 128>>, <<1, 0, 0, 128>>, <<2, 0, 0, 128>>,
     <<255, 255, 255, 255>>}

ChatTexts == {<<>>, <<104>>, <<104, 105>>}

ChatOf(pid, flag, code, text) ==
    Head2 \o <<ChatTag, pid, 0, 0, flag>> \o code \o text \o <<0>> \o <<0>>

RecipientStreams ==
    {ChatOf(pid, flag, code, text) :
        pid \in {1, 7}, flag \in {0, 32}, code \in CodeBytes,
        text \in ChatTexts}

InitRecipient ==
    \E d \in RecipientStreams \cup {KitchenSink}, checks \in BOOLEAN :
        Entry(FileOf(d), FALSE, checks, TRUE)

SpecRecipient == InitRecipient /\ [][Next]_vars

\* the low byte of (code - 2) read as a signed byte
SlotOfCode(code) ==
    LET low == (code[1] + 254) % 256
    IN  IF low >= 128 THEN low - 256 ELSE low

\* C27: a chat record (tag 0x20) is always appended to the chat log, with the
\* sender id, the flag byte, the recipient slot number (code - 2) truncated
\* to a signed byte, the message and the current cumulative timestamp, and
\* the step consumes 8 bytes and the nul-terminated message (and the tag of
\* the next record), for every recipient code
C27_ChatRecordAlwaysAppended ==
    [][\A pid \in {1, 7}, flag \in {0, 32}, code \in CodeBytes,
          text \in ChatTexts :
          (pc = "record" /\ next_record_id = ChatTag
           /\ data = ChatOf(pid, flag, code, text))
          => /\ chat' = Append(chat,
                    [sender_player_id |-> pid, flag |-> <<flag>>,
                     recipient_slot_number |-> <<SlotOfCode(code)>>,
                     message |-> text, timestamp |-> current_timestamp])
             /\ cursor' = cursor + 8 + Len(text) + 1 + 1]_vars

----------------------------------------------------------------------------
(* Streams that mix chat records (tag 0x20) and chat commands (opcode 0x60) *)
(* of one sender and text within the window                                 *)

\* a chat item as a triple of kind (32 a record, 96 a command in a slice of
\* its own), timestamp increment and sender; the text is "h"
DedupMenu ==
    {<<32, 0, 1>>, <<32, 0, 2>>, <<96, 300, 1>>, <<96, 600, 1>>,
     <<96, 0, 2>>}

DedupBytes(r) ==
    IF r[1] = 32 THEN RChat(r[3], 0, 2, <<104>>)
    ELSE ChatSlice(r[2], r[3], <<104>>)

DedupLists == SeqsUpTo(DedupMenu, MaxRecs)

DedupStream(recs) ==
    Head2 \o Flatten([j \in 1..Len(recs) |-> DedupBytes(recs[j])]) \o <<0>>

InitDedup ==
    \E d \in {DedupStream(recs) : recs \in DedupLists} \cup {KitchenSink},
       checks \in BOOLEAN :
        Entry(FileOf(d), FALSE, checks, TRUE)

SpecDedup == InitDedup /\ [][Next]_vars

\* the chat log the claim describes for a list of items: a record is always
\* an entry, a command only when no earlier entry of its sender is less than
\* 500 away (the text is the same throughout)
RECURSIVE ChatOfItems(_, _)
ChatOfItems(recs, n) ==
    IF n = 0 THEN <<>>
    ELSE LET before == ChatOfItems(recs, n - 1)
             now == StampAt(recs, n)
             r == recs[n]
             shadowed == \E j \in 1..Len(before) :
                            /\ before[j][1] = r[3]
                            /\ now - before[j][2] < 500
         IN  IF r[1] = 96 /\ shadowed THEN before
             ELSE Append(before, <<r[3], now, r[1]>>)

\* C28: a chat record 0x20 is never suppressed: its step always adds one
\* entry; a chat command 0x60 is suppressed by an earlier entry of the same
\* sender and text less than 500 away, whether a record or a command made
\* that entry; the chat log returned for a list of records and commands is
\* the one computed from the list, so a command followed by a record, or two
\* records, give two entries and a record followed by a command gives one
C28_DedupIsOneDirectional ==
    /\ [][(pc = "record" /\ next_record_id = ChatTag /\ pc' # "panicked")
          => /\ Len(chat') = Len(chat) + 1
             /\ SubSeq(chat', 1, Len(chat)) = chat
             /\ chat'[Len(chat')].flag # <<>>]_vars
    /\ [](\A recs \in DedupLists :
            (pc = "done" /\ data = DedupStream(recs))
            => LET want == ChatOfItems(recs, Len(recs))
                   got == replay[1].chat
               IN  /\ Len(got) = Len(want)
                   /\ \A j \in 1..Len(got) :
                         /\ got[j].sender_player_id = want[j][1]
                         /\ got[j].timestamp = want[j][2]
                         /\ (got[j].flag = <<>>) = (want[j][3] = 96))
    /\ []((pc = "done" /\ data = DedupStream(<<<<96, 300, 1>>, <<32, 0, 1>>>>))
          => Len(replay[1].chat) = 2)
    /\ []((pc = "done" /\ data = DedupStream(<<<<32, 0, 1>>, <<32, 0, 1>>>>))
          => Len(replay[1].chat) = 2)
    /\ []((pc = "done" /\ data = DedupStream(<<<<32, 0, 1>>, <<96, 300, 1>>>>))
          => Len(replay[1].chat) = 1)

\* a Replay returned after a chat record of player 1 and the same text as a
\* command of player 1, 300 later: the command was decoded and the chat log
\* holds the record only
C28_Witness ==
    /\ pc = "done"
    /\ data = DedupStream(<<<<32, 0, 1>>, <<96, 300, 1>>>>)
    /\ action_records[96] = 1
    /\ Len(replay[1].chat) = 1
    /\ replay[1].chat[1].flag = <<0>>

----------------------------------------------------------------------------
(* Termination: a measure that every step of the decode advances            *)

InitAll == Init \/ InitTrunc \/ InitFile

SpecAll == InitAll /\ [][Next]_vars

\* the positions of from_bytes in program order; the positions of the record
\* loop share the last rank before the two ends
Phases ==
    <<"file_header", "blocks", "data_start", "player_record", "game_name",
      "game_settings", "player_count", "player_list", "metadata",
      "game_start", "slots", "replay_data">>

Phase(at) ==
    IF at \in {"done", "panicked"} THEN Len(Phases) + 2
    ELSE IF at \in RecordLoop THEN Len(Phases) + 1
    ELSE CHOOSE n \in 1..Len(Phases) : Phases[n] = at

\* within the record loop the cursor counts; the bookkeeping after the last
\* action of a block leaves the cursor where it is and goes on to the next
\* block header
Within(at, c) == 2 * c + (IF at = "block_end" THEN 0 ELSE 1)

\* the measure after a step is larger: a later phase, or in the same phase a
\* larger block counter, slot counter or cursor
Advances(p1, k1, s1, w1, p2, k2, s2, w2) ==
    \/ p1 < p2
    \/ p1 = p2 /\ k1 < k2
    \/ p1 = p2 /\ k1 = k2 /\ s1 < s2
    \/ p1 = p2 /\ k1 = k2 /\ s1 = s2 /\ w1 < w2

Ended == pc \in {"done", "panicked"}

\* C29: from_bytes terminates on every input: every step advances the
\* measure (program phase, block counter, slot counter, cursor), so no loop
\* can run forever: an iteration of the block loop advances k, of the slot
\* loop slot_i, of the roster, metadata, record, per-player block and action
\* loops the cursor; the counters are bounded by what they are compared with
\* and the cursor by the reads, which abort past the end of the buffer
C29_EveryLoopAdvances ==
    /\ [][Advances(Phase(pc), k, slot_i, Within(pc, cursor),
                   Phase(pc'), k', slot_i', Within(pc', cursor'))]_vars
    /\ [][(pc = "blocks" /\ pc' = "blocks") => k' = k + 1]_vars
    /\ [][(pc = "slots" /\ pc' = "slots") => slot_i' = slot_i + 1]_vars
    /\ [][(pc \in {"player_list", "metadata", "record", "block_header",
                   "action"} /\ ~Ended')
          => cursor' > cursor]_vars
    /\ [](pc = "blocks" => (k < Size(num_data_blocks) /\ 12 * k <= reader))
    /\ [](pc = "slots" => slot_i < count_slotrecords)
    /\ []((~overrun /\ ~Ended) => cursor <= Len(data))

\* the decode has returned a Replay after at least two iterations of the
\* block loop, the roster loop, the slot loop, the record loop, the
\* per-player block loop and the action loop
C29_Witness ==
    /\ pc = "done"
    /\ k >= 2 /\ slot_i >= 2 /\ Len(actions) >= 2
    /\ Cardinality(DOMAIN player_list) >= 2

----------------------------------------------------------------------------
(* Files that differ in the version byte, the bytes of the block count and  *)
(* the length of the header as it is written                                *)

VersionBytes == {0, 1, 2, 255}

\* the 4 bytes at 44..47: 0, 1, 2, 3, 256 and 65536 blocks
CountBytes ==
    {<<0, 0, 0, 0>>, <<1, 0, 0, 0>>, <<2, 0, 0, 0>>, <<3, 0, 0, 0>>,
     <<0, 1, 0, 0>>, <<0, 0, 1, 0>>}

\* the bytes written after the 48th byte of the header
Paddings == {16, 20}

BlockLists == {<<>>, <<GoodA>>, <<GoodA, GoodB>>}

HeaderFile(ver, count, pad, bs) ==
    Zeros(36) \o <<ver>> \o Zeros(7) \o count \o Zeros(pad) \o Flatten(bs)

HeaderFiles ==
    {HeaderFile(ver, count, pad, bs) :
        ver \in VersionBytes, count \in CountBytes, pad \in Paddings,
        bs \in BlockLists}

InitHeader ==
    \/ \E f \in HeaderFiles, checks \in BOOLEAN :
          Entry(f, FALSE, checks, TRUE)
    \/ InitSink

SpecHeader == InitHeader /\ [][Next]_vars

\* the header length the claim gives for the version byte of a file
HeaderLength(file) == IF file[37] = 0 THEN 64 ELSE 68

\* the declared number of blocks of a file of the family
CountOf(count) == count[1] + 256 * count[2] + 65536 * count[3]

\* C30: the header is 64 bytes long when the version byte at offset 0x24 is 0
\* and 68 bytes for every other value; the block count is the little-endian
\* dword at offset 44..47; the first block header is read at the offset equal
\* to the header length, and at most `block count` blocks are read
C30_HeaderLengthAndBlockCount ==
    /\ [][(pc = "file_header" /\ pc' # "panicked")
          => /\ reader' = HeaderLength(bytes)
             /\ k' = 0
             /\ num_data_blocks' =
                   <<bytes[47] + 256 * bytes[48],
                     bytes[45] + 256 * bytes[46]>>]_vars
    /\ [](\A ver \in VersionBytes, count \in CountBytes, pad \in Paddings,
            bs \in BlockLists :
            (bytes = HeaderFile(ver, count, pad, bs) /\ pc # "file_header"
             /\ (pc = "panicked" => last.op # "file_header"))
            => /\ Size(num_data_blocks) = CountOf(count)
               /\ k <= CountOf(count)
               /\ (pc = "blocks" /\ k = 0) => reader = HeaderLength(bytes))
    /\ [][(pc = "blocks" /\ k' # k)
          => (k' = k + 1 /\ k' <= Size(num_data_blocks))]_vars
    /\ [][(pc = "blocks" /\ k = 0 /\ data' # data)
          => data' = Slice(bytes, HeaderLength(bytes) + 13,
                           Size(DwordAt(bytes, HeaderLength(bytes))) - 1)]_vars
    /\ []((bytes = HeaderFile(0, <<1, 0, 0, 0>>, 16, <<GoodA, GoodB>>)
           /\ pc \notin {"file_header", "blocks"})
          => data = Take(KitchenSink, 100))

\* a file of version 2 with a 68-byte header that declares 1 block and holds
\* 2: the block loop has read the first block at offset 68 and has stopped
C30_Witness ==
    /\ bytes = HeaderFile(2, <<1, 0, 0, 0>>, 20, <<GoodA, GoodB>>)
    /\ pc = "data_start"
    /\ k = 1 /\ num_data_blocks = <<0, 1>>
    /\ reader = 68 + Len(GoodA)
    /\ data = Take(KitchenSink, 100)

----------------------------------------------------------------------------
(* Encoded settings runs written byte by byte: masks and stored bytes of    *)
(* any kind, the zero byte at a mask position and inside a group            *)

RunBytes == {1, 2, 255}

\* the first n bytes of a run: the mask 0b01010101 at every 8th position,
\* bytes from 4 on elsewhere
RunPrefix(n) == [j \in 1..n |-> IF (j - 1) % 8 = 0 THEN 85 ELSE 3 + j]

RunPrefixes == {0, 6, 8, 14}

Runs ==
    {RunPrefix(n) \o s \o <<0>> :
        n \in RunPrefixes, s \in SeqsUpTo(RunBytes, MaxPlain)}

\* 21 settings bytes in 3 groups of 7: the zero byte that ends the run stands
\* at position 24, where a mask would stand
FullGroups == EncodeWith(SettingsPlain \o <<1, 2, 3, 4>>, "odd", 1) \o <<0>>

InitRuns ==
    \E r \in Runs \cup {FullGroups} :
        Entry(FileOf(PreSettings \o r \o D(2) \o <<1, 0, 0, 0>> \o Zeros(4)
                     \o StartRec(<<SlotRec(1, 0)>>) \o <<0>>),
              FALSE, TRUE, TRUE)

InitRun == InitRuns \/ InitSink

SpecRuns == InitRun /\ [][Next]_vars

\* the position of the first zero byte of a run
FirstZero(enc) == Min({p \in 0..(Len(enc) - 1) : enc[p + 1] = 0})

\* the positions below the first zero byte that are not mask positions, in
\* order: the n-th of them is n + (n - 1) \div 7
EmittedAt(n) == n + (n - 1) \div 7

\* what the claim says is emitted for the byte at position p
EmittedFor(enc, p) ==
    LET mask == enc[p - (p % 8) + 1]
    IN  IF (mask \div 2 ^ (p % 8)) % 2 = 0 THEN enc[p + 1] - 1
        ELSE enc[p + 1]

\* C31: decode_gamesettings on an encoded run that ends with a zero byte
\* emits nothing for a byte at a position p with p mod 8 = 0 (the current
\* mask), emits byte - 1 for any other byte when bit p mod 8 of the current
\* mask is clear and the byte unchanged when it is set, and stops without
\* emitting at the first zero byte, at a mask position too; no emitted value
\* is below 0, so the subtraction does not underflow
C31_DecodeByPosition ==
    [][(pc = "game_settings")
       => LET enc == UntilBuf(data, cursor)
              L == FirstZero(enc)
              dec == decode_gamesettings(enc)
          IN  /\ enc[Len(enc)] = 0
              /\ ~decode_panics(enc)
              /\ Len(dec) = Cardinality({p \in 0..(L - 1) : p % 8 # 0})
              /\ \A n \in 1..Len(dec) :
                    /\ EmittedAt(n) < L /\ EmittedAt(n) % 8 # 0
                    /\ dec[n] = EmittedFor(enc, EmittedAt(n))
                    /\ dec[n] \in 0..(U8 - 1)
              /\ (L % 8 = 0 /\ L > 0) => Len(dec) = 7 * (L \div 8)
              /\ pc' # "panicked"
                    => /\ game_settings' = GameSettingsOf(dec)
                       /\ cursor' = cursor + L + 1]_vars

\* the settings step has decoded a run of 3 full groups whose zero byte
\* stands at the mask position 24: 21 bytes, the map name among them
C31_Witness ==
    /\ pc = "player_count"
    /\ UntilBuf(data, Len(PreSettings)) = FullGroups
    /\ FirstZero(FullGroups) = 24
    /\ Len(decode_gamesettings(FullGroups)) = 21
    /\ map_name = <<77>>

----------------------------------------------------------------------------
(* Start records whose declared length, slot count and slot records differ  *)

SlotMenu == {SlotRec(1, 0), SlotRec(2, 1), SlotRec(3, 24)}

SlotLists == SeqsUpTo(SlotMenu, MaxRecs)

\* the declared length: 0, the length of the record, 65535
DeclaredLengths(n) == {0, 9 * n + 7, 65535}

\* the count against the slot records in the stream
SlotCountOff == {-1, 0, 1}

\* seed, selection mode and start spot count in bytes that are tags of
\* records elsewhere
SeedBytes == <<23, 0, 31, 0, 32, 30>>

StartWith(length, count, recs) ==
    Roster2 \o <<GameStartTag>> \o W(length) \o <<count>> \o Flatten(recs)
    \o SeedBytes \o RLeave(1, 1, 9) \o <<0>>

SlotStartStreams ==
    {StartWith(length, Len(recs) + off, recs) :
        recs \in SlotLists, length \in UNION {DeclaredLengths(n) : n \in 0..3},
        off \in SlotCountOff}

InitStart ==
    \E d \in {s \in SlotStartStreams : s[Len(Roster2) + 4] \in 0..255}
             \cup {KitchenSink} :
        Entry(FileOf(d), FALSE, TRUE, TRUE)

SpecStart == InitStart /\ [][Next]_vars

\* the position of the count byte and of the first slot record
CountAt == Len(Roster2) + 3
SlotsAt == Len(Roster2) + 4

\* C32: the slot sequence of the returned Replay has as many entries as the
\* count byte of the start record says, in wire order; a slot record takes 9
\* bytes, the declared 16-bit length has no effect on the number of records
\* read, and 6 more bytes are consumed before the tag of the first record
C32_SlotsFollowCountByte ==
    /\ [][(pc = "game_start" /\ pc' # "panicked")
          => /\ count_slotrecords' = ByteAt(data, cursor + 2)
             /\ cursor' = cursor + 3 /\ slots' = <<>>]_vars
    /\ [][(pc = "slots" /\ pc' # "panicked")
          => /\ cursor' = cursor + 9
             /\ Len(slots') = Len(slots) + 1
             /\ slots'[Len(slots')].player_id = ByteAt(data, cursor)
             /\ slots'[Len(slots')].handicap_percent
                    = ByteAt(data, cursor + 8)]_vars
    /\ [][(pc = "replay_data" /\ pc' # "panicked")
          => /\ cursor' = cursor + 6 + 1
             /\ next_record_id' = ByteAt(data, cursor + 6)
             /\ Len(slots) = count_slotrecords]_vars
    /\ [](pc = "done"
          => /\ Len(replay[1].slots) = count_slotrecords
             /\ data \in SlotStartStreams
                => /\ Len(replay[1].slots) = ByteAt(data, CountAt)
                   /\ \A j \in 1..Len(replay[1].slots) :
                         replay[1].slots[j].player_id
                             = ByteAt(data, SlotsAt + 9 * (j - 1)))

\* a Replay returned for a start record that declares the length 0 and 2
\* slots, of players 2 and 1 in this order
C32_Witness ==
    /\ pc = "done"
    /\ data = StartWith(0, 2, <<SlotRec(2, 1), SlotRec(1, 0)>>)
    /\ Len(replay[1].slots) = 2
    /\ replay[1].slots[1].player_id = 2
    /\ replay[1].slots[2].player_id = 1
    /\ replay[1].metadata.saving_player_id = 1

----------------------------------------------------------------------------
(* Streams of one block with one or two actions of the opcodes that are     *)
(* emitted, over the mode bytes of a selection and the lengths of its list  *)

EmittedMenu ==
    {APause, <<2>>, ASave, ASaveDone, ASkip(24), AMinimap}
    \cup {AAbility(op, 65, 66, word) : op \in AbilityOps, word \in {13, 17219}}
    \cup {ASelect(22, mode, n) : mode \in ModeBytes, n \in {0, 1, 2}}
    \cup {ASelect(23, group, n) : group \in {0, 4}, n \in {0, 1, 2}}

PayloadStreams ==
    {Head2 \o RSlice(31, 100, Blk(1, Len(a) + Len(b), a \o b)) \o <<0>> :
        a \in EmittedMenu, b \in {<<>>, APause, AMinimap}}

InitPayload ==
    \E d \in PayloadStreams \cup {KitchenSink}, checks \in BOOLEAN :
        Entry(FileOf(d), FALSE, checks, TRUE)

SpecPayload == InitPayload /\ [][Next]_vars

AbilityFields == {"item_id", "ability_flags", "unknownA", "unknownB"}

\* the fields the claim gives to the payload of an action type; none for the
\* types without a payload
FieldsOf(type) ==
    CASE type = "SAVE_GAME" -> {"savegame_name"}
      [] type = "ABILITY_BASIC" -> AbilityFields
      [] type = "ABILITY_WITH_TARGET_LOCATION" ->
            AbilityFields \cup {"location"}
      [] type = "ABILITY_WITH_TARGET_LOCATION_AND_OBJECT" ->
            AbilityFields
            \cup {"location", "target_obj_id_1", "target_obj_id_2"}
      [] type = "ITEM_TRANSFER" ->
            AbilityFields
            \cup {"location", "target_obj_id_1", "target_obj_id_2",
                  "item_obj_id_1", "item_obj_id_2"}
      [] type = "CHANGE_SELECTION" -> {"sel_mode", "objects"}
      [] type = "GROUP_ASSIGN" -> {"group_id", "objects"}
      [] type = "MINIMAP_SIGNAL" -> {"location"}
      [] OTHER -> {}

\* C33: the payload of every emitted action holds exactly the fields of its
\* opcode: 0x06 the savegame name; 0x10 item id, ability flags and the two
\* unlabeled numbers; 0x11 those and the location; 0x12 those and the target
\* object ids; 0x13 those and the item object ids; 0x16 selection mode and
\* object list; 0x17 group index and object list; 0x68 the location; the
\* actions of 0x01, 0x02, 0x07 and 0x18 have no payload
C33_PayloadHoldsOpcodeFields ==
    \A j \in 1..Len(actions) :
        LET a == actions[j]
        IN  IF FieldsOf(a.action_type) = {} THEN a.data = <<>>
            ELSE /\ Len(a.data) = 1
                 /\ DOMAIN a.data[1] = FieldsOf(a.action_type)

====
